---- MODULE Spec2Model ----
(***************************************************************************)
(* A model of coaxial's reactive update engine: the state cells and their  *)
(* change bus (src/src/states.rs, src/src/state.rs), the computed graph    *)
(* (src/src/computed.rs), the closure registry (src/src/closure.rs) and    *)
(* the per-connection protocol loop (src/src/live.rs), for the handler of  *)
(* examples/main.rs extended with one computed state over a pair of cells, *)
(* the event handler of examples/events.rs and the background writer of    *)
(* examples/shared-state.rs.                                               *)
(*                                                                         *)
(* Threads: the protocol loop ("loop"), the task the loop spawned on the   *)
(* local pool ("pool", a closure or an event handler; the loop awaits its  *)
(* join handle), a task the handler spawned with tokio::spawn ("bg"), and  *)
(* the asynchronous recomputation tasks of the join set (tasks).           *)
(*                                                                         *)
(* State::set is modelled as states.rs has it: the value is written under  *)
(* the write guard, the guard is released, and the change is sent after.   *)
(* The behaviours of state.rs, which sends while it holds the guard, are   *)
(* those in which the send follows the write at once.                      *)
(*                                                                         *)
(* Steps that touch nothing another thread can see are joined to the step  *)
(* before them: the loop's return from an await to the pool task's last    *)
(* step, the lookup and spawn of the first queued closure call to the      *)
(* drain of the queue, and a listener's read of its dependencies to its    *)
(* write (computed cells read by it are written on the loop alone).        *)
(*                                                                         *)
(* Two more specifications stand beside the loop's. SpecEvents is the      *)
(* registration and dispatch of event handlers (src/src/event_handlers.rs  *)
(* and Context::on). SpecSession is a page load up to the live connection: *)
(* the render run of the handler, the page with the seed in it, and the    *)
(* upgrade request that runs the handler again (src/src/live.rs,           *)
(* src/src/context.rs, src/src/random_id.rs).                              *)
(*                                                                         *)
(* Three more follow them. SpecDerive is a handler declaring states and    *)
(* computed states on a Context, with the changes made after               *)
(* (src/src/context.rs, src/src/computed.rs). SpecCalls is the loop's      *)
(* model with Closure messages only and a record of what was written,     *)
(* called and sent. SpecMarkup is the markup a handler returned on its way *)
(* to the page: optimize, give_ids, reactivity and script                  *)
(* (src/src/html/content.rs, src/src/html/element.rs,                      *)
(* src/src/reactive_js.rs), with elements that are void or carry a value   *)
(* attribute bound to a state (src/src/html/attribute.rs,                  *)
(* src/src/html/attributes.rs, src/src/html/funcs.rs).                     *)
(*                                                                         *)
(* SpecFair is the loop's model with the scheduling of the runtime: weak   *)
(* fairness of every step of the loop, the pool and the spawned tasks,     *)
(* none of the browser's. SpecIds is RandomId's parsing of a string into   *)
(* an id and its display (src/src/random_id.rs).                           *)
(***************************************************************************)
EXTENDS Integers, Sequences, FiniteSets, TLC

\* ---------------------------------------------------------------- bounds
\* Values a client or a background task writes are 0..MaxVal.
MaxVal == 1
\* Inputs of a session: frames the client sends and writes of the background task.
MaxInputs == 2

\* recv_many(&mut changes, 10000)
RecvLimit == 10000

\* ------------------------------------------------------- the handler's cells
\* let counter = ctx.use_state(0i32); let clicks = ctx.use_state(0u32);
StateIds == {"counter", "clicks"}
\* ctx.use_computed(..): counter_plus_1 over counter, total over (counter, clicks)
SyncIds == {"counter_plus_1", "total"}
\* ctx.use_computed_async(counter, ..): delayed_update
AsyncIds == {"delayed_update"}
ComputedIds == SyncIds \cup AsyncIds
Cells == StateIds \cup ComputedIds

\* The initial value each use_state call is given.
InitialValue(id) == 0

\* StateGetter::id_list of each computed state's dependencies.
id_list(c) ==
  CASE c = "counter_plus_1" -> <<"counter">>
    [] c = "total" -> <<"counter", "clicks">>
    [] c = "delayed_update" -> <<"counter">>

\* The compute function of each computed state, applied to StateGetter::get().
compute(c, got) ==
  CASE c = "counter_plus_1" -> got[1] + 1
    [] c = "total" -> got[1] + got[2]
    [] c = "delayed_update" -> got[1]

\* value.to_string(): the decimal text of a number.
to_string(v) == ToString(v)

Range(s) == {s[i] : i \in 1..Len(s)}

\* ---------------------------------------------------------- computed graph
\* One registration loop of add_computed / add_computed_async: push the
\* listener of c under every id of id_list, in order.
RECURSIVE PushListener(_, _, _, _)
PushListener(handlers, c, ids, i) ==
  IF i > Len(ids) THEN handlers
  ELSE PushListener([handlers EXCEPT ![ids[i]] = Append(@, c)], c, ids, i + 1)

\* A registration that pushes the listener under the first id only.
add_computed_first_id(handlers, c) ==
  [handlers EXCEPT ![id_list(c)[1]] = Append(@, c)]

\* A registration under the last id of id_list only.
add_computed_last_id(handlers, c) ==
  [handlers EXCEPT ![id_list(c)[Len(id_list(c))]] = Append(@, c)]

add_computed(handlers, c) == PushListener(handlers, c, id_list(c), 1)

add_computed_async(handlers, c) == PushListener(handlers, c, id_list(c), 1)

NoHandlers == [id \in Cells |-> <<>>]

\* The registries after the handler ran: HashMap<RandomId, Vec<OnChangeHandler>>,
\* a missing key being the empty vector.
on_change_handler == add_computed(add_computed(NoHandlers, "counter_plus_1"), "total")

on_change_handler_async == add_computed_async(NoHandlers, "delayed_update")

\* -------------------------------------------------------- closure registry
\* Bodies as straight-line programs over the cells:
\*   get  id   : tmp = id.get()
\*   setp id   : id.set(tmp + 1)
\*   set  id v : id.set(v)
\*   call cl   : cl.call()
ClosureIds == {"click", "add"}

Op(o, id, v) == [op |-> o, id |-> id, v |-> v]

\* examples/main.rs: click = clicks.set(clicks.get() + 1);
\* add = counter.set(counter.get() + 1); click.call();
ClosureBody(cl) ==
  CASE cl = "click" -> <<Op("get", "clicks", 0), Op("setp", "clicks", 0)>>
    [] cl = "add" -> <<Op("get", "counter", 0), Op("setp", "counter", 0),
                       Op("call", "click", 0)>>

\* examples/events.rs: ctx.on("click", |event| x.set(event.x)), x being counter here.
EventNames == {"click"}

EventBody(name, x) == <<Op("set", "counter", x)>>

\* ------------------------------------------------------------------ state
VARIABLES
  value,      \* StateInner.value of every cell
  bus,        \* the changes channel: (id, string) in send order
  callq,      \* the closure_call channel: closure ids in send order
  loopPc,     \* where the protocol loop is
  updates,    \* the drained batch of changes the loop is working on
  ui,         \* index into updates of the change being recomputed
  li,         \* inside recompute_dependents: the next sync listener to run
  calls,      \* the drained batch of closure calls still to run
  pool,       \* remaining operations of the task running on the pool
  tmp,        \* the pool task's local
  pend,       \* per thread: the (id, value, string) written and not yet sent
  tasks,      \* the join set: asynchronous recomputations in spawn order
  nInputs,    \* frames received and background writes so far
  client,     \* the browser's copy: id -> string, after the Updates it applied
  ran,        \* ghost: listener runs/spawns per computed state in the current call
  batchRuns,  \* ghost: listener runs/spawns per computed state in the current batch
  tampered,   \* ghost: computed cells last written by something else than their listener
  justSet,    \* ghost: per thread, the (id, value) of its last set, until it moves on
              \* or someone else writes id
  frame       \* ghost: what socket.recv() yielded last, as <<kind, name>>

\* The event registries while the handler runs and an event is dispatched.
VARIABLES
  events,          \* Events.events: name -> [handlers, params]
  event_handlers,  \* Context.event_handlers: name -> handler
  join_set,        \* the tasks the last Events::handle spawned: <<handler, payload>>
  called,          \* the handlers the loop called for the last Event message
  handled,         \* ghost: the name and payload of the last event, or <<>>
  registered       \* ghost: the registrations so far, [name, h, P] in order

rvars == <<events, event_handlers, join_set, called, handled, registered>>

\* A page load, from the first request to the live connection.
VARIABLES
  phase,   \* "new", "rendering", "rendered", "upgrading", "active" or "panicked"
  prog,    \* the declarations the handler makes, in order
  tree,    \* the elements of the markup the handler returns, in walk order
  ctx,     \* the Context of the render run and of the upgrade run, or <<>>
  page,    \* the document sent: the seed's text and the ids in it, or <<>>
  query    \* the coaxial-seed parameter of the upgrade request, or "None"

svars == <<phase, prog, tree, ctx, page, query>>

\* What a session of closure invocations has done so far.
VARIABLES
  sent,       \* ghost: the Update messages sent, each the sequence of its fields
  wrote,      \* ghost: the writes closures made to state cells, (id, string) in order
  requested,  \* ghost: per closure, the Closure::call()s made
  started     \* ghost: per closure, the executions the loop started for queued calls

cvars == <<sent, wrote, requested, started>>

\* A handler declaring its cells on a Context, and the changes made after.
VARIABLES
  made,             \* whether Context::new has run
  websocket,        \* Context.in_websocket
  declared,         \* the cells the handler has declared so far
  cell,             \* the value of every declared cell
  listeners,        \* ComputedStates.on_change_handler: id -> computed states
  listeners_async,  \* ComputedStates.on_change_handler_async
  recomputations,   \* ComputedStates.join_set: the spawned recomputations
  changed,          \* the changes channel: ids in send order
  nSets,            \* State::set calls of the handler and its tasks so far
  policy,           \* ghost: the InitialValue delayed_update was derived with, or <<>>
  depChanged,       \* ghost: a dependency of delayed_update was set after it was derived,
                    \* or its change was still on the channel then
  spawns            \* ghost: recomputations of delayed_update spawned so far

dvars == <<made, websocket, declared, cell, listeners, listeners_async,
           recomputations, changed, nSets, policy, depChanged, spawns>>

\* The markup a handler returned, on its way to the page.
VARIABLES
  stage,        \* "new", "returned", "optimized", "identified" or "compiled"
  content,      \* the Content the handler put into its root element
  element,      \* the root element as it is now
  descriptors,  \* Reactivity.element_content_descriptors
  attribute_descriptors,  \* Reactivity.element_attribute_descriptors
  script        \* Reactivity::script(): the handlers' text, and the initial values

hvars == <<stage, content, element, descriptors, attribute_descriptors, script>>

\* A call of one of RandomId's functions on a string.
VARIABLES
  function,  \* "none", "try_from_str", "from_str" or "visit_str"
  string,    \* the &str it was given, as its characters
  returned   \* what came of it: <<"Ok", bytes>>, <<"Err", <<>>>> or <<"Panic", <<>>>>

ivars == <<function, string, returned>>

vars == <<value, bus, callq, loopPc, updates, ui, li, calls, pool, tmp, pend, tasks,
          nInputs, client, ran, batchRuns, tampered, justSet>>

Threads == {"loop", "pool", "bg"}

Zero == [c \in ComputedIds |-> 0]

\* State::get: the cell's current value.
Get(id) == value[id]

\* StateGetter::get of c's dependencies.
get(c) == [i \in 1..Len(id_list(c)) |-> Get(id_list(c)[i])]

\* The session is alive (its Owner not dropped) until the loop returns.
Alive == loopPc # "closed"

\* use_state(initial) for the cells, use_computed(states, compute) and
\* use_computed_async(states, compute).await for the computed ones: the value
\* is compute(states.get()) at declaration.
Declared(id) ==
  IF id \in StateIds THEN InitialValue(id)
  ELSE compute(id, [i \in 1..Len(id_list(id)) |-> InitialValue(id_list(id)[i])])

\* Nothing is registered yet and no event has been dispatched.
InitRegistry ==
  /\ events = <<>>
  /\ event_handlers = <<>>
  /\ join_set = <<>>
  /\ called = <<>>
  /\ handled = <<>>
  /\ registered = <<>>

\* No request has been made.
InitSession ==
  /\ phase = "new"
  /\ prog = <<>>
  /\ tree = <<>>
  /\ ctx = [r \in {"render", "live"} |-> <<>>]
  /\ page = <<>>
  /\ query = "None"

\* Nothing has been sent, written or called.
InitCalls ==
  /\ sent = <<>>
  /\ wrote = <<>>
  /\ requested = [cl \in {"click", "add"} |-> 0]
  /\ started = [cl \in {"click", "add"} |-> 0]

\* No Context has been made.
InitDerive ==
  /\ made = FALSE
  /\ websocket = FALSE
  /\ declared = {}
  /\ cell = [id \in Cells |-> 0]
  /\ listeners = NoHandlers
  /\ listeners_async = NoHandlers
  /\ recomputations = <<>>
  /\ changed = <<>>
  /\ nSets = 0
  /\ policy = <<>>
  /\ depChanged = FALSE
  /\ spawns = 0

\* No markup has been returned.
InitMarkup ==
  /\ stage = "new"
  /\ content = [t |-> "Empty", s |-> <<>>, items |-> <<>>, id |-> 0, attributes |-> <<>>]
  /\ element = [t |-> "Empty", s |-> <<>>, items |-> <<>>, id |-> 0, attributes |-> <<>>]
  /\ descriptors = <<>>
  /\ attribute_descriptors = <<>>
  /\ script = [handlers |-> <<>>, state |-> {}]

InitIds ==
  /\ function = "none"
  /\ string = <<>>
  /\ returned = <<"None", <<>>>>

Init ==
  /\ InitRegistry
  /\ InitSession
  /\ InitCalls
  /\ InitDerive
  /\ InitMarkup
  /\ InitIds
  /\ value = [id \in Cells |-> Declared(id)]
  /\ bus = <<>>
  /\ callq = <<>>
  /\ loopPc = "select"
  /\ updates = <<>>
  /\ ui = 0
  /\ li = 0
  /\ calls = <<>>
  /\ pool = <<>>
  /\ tmp = 0
  /\ pend = [t \in Threads |-> <<>>]
  /\ tasks = <<>>
  /\ nInputs = 0
  /\ client = [id \in Cells |-> to_string(Declared(id))]
  /\ ran = Zero
  /\ batchRuns = Zero
  /\ tampered = {}
  /\ justSet = [t \in Threads |-> <<>>]
  /\ frame = <<>>

\* ------------------------------------------------------------ State::set
\* Ghost bookkeeping of a write of v to id by thread t: t is the one whose
\* set(v) wrote id last, and nobody else is any more.
LastWriter(t, id, v) ==
  [u \in Threads |->
     IF u = t THEN <<<<id, v>>>>
     ELSE IF justSet[u] # <<>> /\ justSet[u][1][1] = id THEN <<>> ELSE justSet[u]]

\* Thread t moved on past its last set.
MovedOn(t) == [justSet EXCEPT ![t] = <<>>]

\* The value of a SetState message, a serde_json::Value, as its kind and its
\* text: a number, a string, null.
Payloads ==
  {<<"Number", to_string(v)>> : v \in 0..MaxVal}
    \cup {<<"String", to_string(v)>> : v \in 0..MaxVal}
    \cup {<<"String", "x">>, <<"Null", "null">>}

\* serde_json::from_str::<T>(s) for the numeric T of the cells: whether it is
\* Ok, and the number.
from_str(s) ==
  IF \E v \in 0..MaxVal : to_string(v) = s
    THEN <<TRUE, CHOOSE v \in 0..MaxVal : to_string(v) = s>>
    ELSE <<FALSE, 0>>

\* A from_value that takes anything that is no number for zero.
from_value_or_default(payload) ==
  IF payload[1] = "Number" THEN from_str(payload[2]) ELSE <<TRUE, 0>>

\* serde_json::from_value::<T>(value): a number only.
from_value(payload) ==
  IF payload[1] = "Number" THEN from_str(payload[2]) ELSE <<FALSE, 0>>

\* A set_value that does not look inside a string.
set_value_typed(payload) == from_value(payload)

\* set_value: a string that parses as a T is taken for it, anything else
\* goes through from_value(value).unwrap(). Whether a value is set, and which.
set_value(payload) ==
  IF payload[1] = "String" /\ from_str(payload[2])[1] THEN from_str(payload[2])
  ELSE from_value(payload)

\* A set whose write is lost: the guard is taken and released, the value kept.
TryWrite_lost(t, id, v, who) ==
  /\ value' = value
  /\ tampered' = tampered
  /\ justSet' = LastWriter(t, id, v)

\* try_set, first half: let string = value.to_string(); let mut w =
\* self.inner.try_write()?; w.value = value; drop(w);
\* The write guard is released here, before the change is sent.
TryWrite(t, id, v, who) ==
  /\ value' = [value EXCEPT ![id] = v]
  /\ tampered' = IF id \in ComputedIds
                   THEN (IF who = "recompute" THEN tampered \ {id} ELSE tampered \cup {id})
                   ELSE tampered
  /\ justSet' = LastWriter(t, id, v)

\* What try_set still holds after the write: the id, the value and its string.
Written(id, v) == <<id, v, to_string(v)>>

\* A send that enqueues the change twice.
changes_tx_send_twice(w) == Append(Append(bus, <<w[1], w[3]>>), <<w[1], w[3]>>)

\* try_set, second half: w.changes_tx.send((self.id, string)).unwrap(); Ok(())
changes_tx_send(w) == Append(bus, <<w[1], w[3]>>)

\* pool.spawn_pinned(closure).await.unwrap() returns when the task has
\* finished: the loop goes on, to select! or to the next queued closure call.
Resumed == IF loopPc = "await_msg" \/ calls = <<>> THEN "select" ELSE "calls"

\* A thread between the two halves of try_set finishes it. Once the session
\* is dropped, self.inner.read() panics instead and nothing is sent. When it
\* was the last operation of the pool's task, the loop's await returns.
ThreadSend(t) ==
  /\ pend[t] # <<>>
  /\ pend' = [pend EXCEPT ![t] = <<>>]
  /\ bus' = IF Alive THEN changes_tx_send(pend[t][1]) ELSE bus
  /\ loopPc' = IF t = "pool" /\ pool = <<>> THEN Resumed ELSE loopPc
  /\ UNCHANGED <<value, callq, updates, ui, li, calls, pool, tmp, tasks, nInputs,
                 client, ran, batchRuns, tampered, justSet>>

\* ------------------------------------------------- the loop: socket.recv()
LoopReady == loopPc = "select" /\ pend["loop"] = <<>>

\* A return that is put off while changes are queued.
Closed_flush ==
  /\ loopPc' = IF bus # <<>> THEN "select" ELSE "closed"
  /\ tasks' = <<>>
  /\ justSet' = [t \in Threads |-> <<>>]

\* The loop returns: the context is dropped, and with it the cells, the
\* channels and the join set, whose tasks are aborted.
Closed ==
  /\ loopPc' = "closed"
  /\ tasks' = <<>>
  /\ justSet' = [t \in Threads |-> <<>>]

\* A lookup whose miss is skipped: the loop goes on to the next frame.
RecvClosure_ignore(cl) ==
  /\ LoopReady /\ nInputs < MaxInputs
  /\ nInputs' = nInputs + 1
  /\ IF cl \in ClosureIds
       THEN /\ pool' = ClosureBody(cl)
            /\ loopPc' = "await_msg"
       ELSE UNCHANGED <<pool, loopPc>>
  /\ justSet' = MovedOn("loop")
  /\ UNCHANGED <<value, bus, callq, updates, ui, li, calls, tmp, pend, client,
                 ran, batchRuns, tampered, tasks>>

\* InMessage::Closure { closure }: look it up, spawn it on the pool and await
\* the join handle; an unknown id is fatal.
RecvClosure(cl) ==
  /\ LoopReady /\ nInputs < MaxInputs
  /\ nInputs' = nInputs + 1
  /\ IF cl \in ClosureIds
       THEN /\ pool' = ClosureBody(cl)
            /\ loopPc' = "await_msg"
            /\ justSet' = MovedOn("loop")
            /\ UNCHANGED tasks
       ELSE Closed /\ UNCHANGED pool
  /\ UNCHANGED <<value, bus, callq, updates, ui, li, calls, tmp, pend, client,
                 ran, batchRuns, tampered>>

\* InMessage::Closure for a closure registered with a parameter that
\* from_request_parts does not resolve from the request's parts: the task on
\* the pool panics at todo!() before the body, spawn_pinned(..).await is an
\* Err, and the loop's unwrap panics: the connection's task unwinds.
RecvClosureRejected(cl) ==
  /\ LoopReady /\ nInputs < MaxInputs /\ cl \in ClosureIds
  /\ nInputs' = nInputs + 1
  /\ Closed
  /\ UNCHANGED <<value, bus, callq, updates, ui, li, calls, pool, tmp, pend, client,
                 ran, batchRuns, tampered>>

\* InMessage::Event { name, params }: an unknown name is fatal here; a known
\* handler is spawned on the pool and awaited.
RecvEvent(name, x) ==
  /\ LoopReady /\ nInputs < MaxInputs
  /\ nInputs' = nInputs + 1
  /\ IF name \in EventNames
       THEN /\ pool' = EventBody(name, x)
            /\ loopPc' = "await_msg"
            /\ justSet' = MovedOn("loop")
            /\ UNCHANGED tasks
       ELSE Closed /\ UNCHANGED pool
  /\ UNCHANGED <<value, bus, callq, updates, ui, li, calls, tmp, pend, client,
                 ran, batchRuns, tampered>>

\* A SetState whose unknown id is passed over.
RecvSetState_ignore(id, payload) ==
  /\ LoopReady /\ nInputs < MaxInputs
  /\ nInputs' = nInputs + 1
  /\ IF id \in Cells /\ set_value(payload)[1]
       THEN /\ TryWrite("loop", id, set_value(payload)[2], "client")
            /\ pend' = [pend EXCEPT !["loop"] = <<Written(id, set_value(payload)[2])>>]
       ELSE UNCHANGED <<value, tampered, pend, justSet>>
  /\ UNCHANGED <<bus, callq, updates, ui, li, calls, pool, tmp, client, ran,
                 batchRuns, loopPc, tasks>>

\* InMessage::SetState { id, value }: states.get(&id) and state.set_value(value),
\* inline on the loop; the registry holds every cell use_state_inner made, the
\* computed ones included. An unknown id panics, and so does a value that
\* set_value cannot deserialize.
RecvSetState(id, payload) ==
  /\ LoopReady /\ nInputs < MaxInputs
  /\ nInputs' = nInputs + 1
  /\ IF id \in Cells /\ set_value(payload)[1]
       THEN /\ TryWrite("loop", id, set_value(payload)[2], "client")
            /\ pend' = [pend EXCEPT !["loop"] = <<Written(id, set_value(payload)[2])>>]
            /\ UNCHANGED <<loopPc, tasks>>
       ELSE Closed /\ UNCHANGED <<value, tampered, pend>>
  /\ UNCHANGED <<bus, callq, updates, ui, li, calls, pool, tmp, client, ran,
                 batchRuns>>

\* A frame that is not text taken for the end of the stream.
RecvSkip_fatal ==
  /\ LoopReady /\ nInputs < MaxInputs
  /\ nInputs' = nInputs + 1
  /\ Closed
  /\ UNCHANGED <<value, bus, callq, updates, ui, li, calls, pool, tmp, pend, client,
                 ran, batchRuns, tampered>>

\* Ok(_) for a frame that is not text: SkipMessage, continue.
RecvSkip ==
  /\ LoopReady /\ nInputs < MaxInputs
  /\ nInputs' = nInputs + 1
  /\ justSet' = MovedOn("loop")
  /\ UNCHANGED <<value, bus, callq, loopPc, updates, ui, li, calls, pool, tmp, pend,
                 tasks, client, ran, batchRuns, tampered>>

\* A text frame that is no InMessage: serde_json::from_str(&msg).unwrap()
\* panics, the connection's task unwinds and the context is dropped.
RecvMalformed ==
  /\ LoopReady /\ nInputs < MaxInputs
  /\ nInputs' = nInputs + 1
  /\ Closed
  /\ UNCHANGED <<value, bus, callq, updates, ui, li, calls, pool, tmp, pend, client,
                 ran, batchRuns, tampered>>

\* socket.recv() yields None (the stream ended) or Err (Fatal): return.
RecvEnd ==
  /\ LoopReady
  /\ Closed
  /\ UNCHANGED <<value, bus, callq, updates, ui, li, calls, pool, tmp, pend, nInputs,
                 client, ran, batchRuns, tampered>>

\* ------------------------------------------------------- the pool's task
\* One operation of the closure or event handler running on the pool. After
\* the last one the loop's await returns (a set still has its change to send).
PoolStep ==
  /\ pool # <<>> /\ pend["pool"] = <<>>
  /\ pool' = Tail(pool)
  /\ LET o == Head(pool) IN
     CASE o.op = "get" ->
            /\ tmp' = Get(o.id)
            /\ justSet' = MovedOn("pool")
            /\ loopPc' = IF Tail(pool) = <<>> THEN Resumed ELSE loopPc
            /\ UNCHANGED <<value, tampered, pend, callq>>
       [] o.op = "setp" ->
            /\ TryWrite("pool", o.id, tmp + 1, "user")
            /\ pend' = [pend EXCEPT !["pool"] = <<Written(o.id, tmp + 1)>>]
            /\ tmp' = 0
            /\ UNCHANGED <<callq, loopPc>>
       [] o.op = "set" ->
            /\ TryWrite("pool", o.id, o.v, "user")
            /\ pend' = [pend EXCEPT !["pool"] = <<Written(o.id, o.v)>>]
            /\ UNCHANGED <<tmp, callq, loopPc>>
       [] o.op = "call" ->
            \* Closure::call: self.closure_call_tx.send(self.clone())
            /\ callq' = Append(callq, o.id)
            /\ justSet' = MovedOn("pool")
            /\ loopPc' = IF Tail(pool) = <<>> THEN Resumed ELSE loopPc
            /\ UNCHANGED <<value, tampered, pend, tmp>>
  /\ UNCHANGED <<bus, updates, ui, li, calls, tasks, nInputs, client, ran,
                 batchRuns>>

\* ------------------------------------- the loop: changes_rx.recv_many(..)
Min(a, b) == IF a < b THEN a ELSE b

\* recv_many moves up to RecvLimit queued changes into the batch.
DrainChanges ==
  /\ LoopReady /\ bus # <<>>
  /\ LET n == Min(Len(bus), RecvLimit) IN
       /\ updates' = SubSeq(bus, 1, n)
       /\ bus' = SubSeq(bus, n + 1, Len(bus))
  /\ loopPc' = "recompute"
  /\ ui' = 1
  /\ li' = 1
  /\ justSet' = MovedOn("loop")
  /\ UNCHANGED <<value, callq, calls, pool, tmp, pend, tasks, nInputs, client,
                 ran, batchRuns, tampered>>

\* for (id, _) in &updates { context.computed_states.recompute_dependents(*id) }:
\* the loop is inside the call for the ui-th change of the batch.
InRecompute == loopPc = "recompute" /\ ui <= Len(updates) /\ pend["loop"] = <<>>

\* A lookup that finds the listeners of counter whatever the id.
SyncListeners_any(id) == on_change_handler["counter"]

\* A lookup in which a computed state is a listener of its own changes.
SyncListeners_own(id) == IF id \in SyncIds THEN <<id>> ELSE on_change_handler[id]

\* The sync listeners recompute_dependents(id) runs, and the async ones it spawns.
SyncListeners(id) == on_change_handler[id]

AsyncListeners(id) == on_change_handler_async[id]

Bump(f, c) == [f EXCEPT ![c] = @ + 1]

\* Ghost: the first step of a call starts its counts afresh.
RanSoFar == IF li = 1 THEN Zero ELSE ran

\* (*func)() for the li-th sync listener: state.set(compute(states.get())),
\* up to the release of the write guard.
SyncListener ==
  /\ InRecompute /\ li <= Len(SyncListeners(updates[ui][1]))
  /\ LET c == SyncListeners(updates[ui][1])[li]
         v == compute(c, get(c))
     IN /\ TryWrite("loop", c, v, "recompute")
        /\ pend' = [pend EXCEPT !["loop"] = <<Written(c, v)>>]
        /\ ran' = Bump(RanSoFar, c)
        /\ batchRuns' = Bump(batchRuns, c)
  /\ li' = li + 1
  /\ UNCHANGED <<bus, callq, loopPc, updates, ui, calls, pool, tmp, tasks, nInputs,
                 client>>

\* self.join_set.spawn((*func)()) for every async listener, in order.
Spawned(ls) == [i \in 1..Len(ls) |-> [c |-> ls[i], pc |-> "spawned", val |-> 0]]

RECURSIVE BumpAll(_, _, _)
BumpAll(f, ls, i) == IF i > Len(ls) THEN f ELSE BumpAll(Bump(f, ls[i]), ls, i + 1)

\* The async listeners are spawned and recompute_dependents returns.
RecomputeReturn ==
  /\ InRecompute /\ li > Len(SyncListeners(updates[ui][1]))
  /\ LET ls == AsyncListeners(updates[ui][1]) IN
       /\ tasks' = tasks \o Spawned(ls)
       /\ ran' = BumpAll(RanSoFar, ls, 1)
       /\ batchRuns' = BumpAll(batchRuns, ls, 1)
  /\ ui' = ui + 1
  /\ li' = 1
  /\ justSet' = MovedOn("loop")
  /\ UNCHANGED <<value, bus, callq, loopPc, updates, calls, pool, tmp, pend, nInputs,
                 client, tampered>>

\* The browser applies the fields of an Update in order: the last one of an id wins.
ApplyUpdate(cl, fields) ==
  [id \in Cells |->
     LET is == {i \in 1..Len(fields) : fields[i][1] = id} IN
       IF is = {} THEN cl[id]
       ELSE fields[CHOOSE i \in is : \A j \in is : j <= i][2]]

\* A message that leaves the first change of the batch out.
UpdateFields_rest(batch) == [i \in 1..(Len(batch) - 1) |-> <<batch[i + 1][1], batch[i + 1][2]>>]

\* OutMessage::Update { fields: &updates }: the batch as it was drained, each
\* id as its string.
UpdateFields(batch) == [i \in 1..Len(batch) |-> <<batch[i][1], batch[i][2]>>]

\* socket.send(msg).await.unwrap(), and the loop is back at select!.
SendUpdate ==
  /\ loopPc = "recompute" /\ ui > Len(updates) /\ pend["loop"] = <<>>
  /\ client' = ApplyUpdate(client, UpdateFields(updates))
  /\ loopPc' = "select"
  /\ updates' = <<>>
  /\ ui' = 0
  /\ li' = 0
  /\ ran' = Zero
  /\ batchRuns' = Zero
  /\ UNCHANGED <<value, bus, callq, calls, pool, tmp, pend, tasks, nInputs, tampered,
                 justSet>>

\* -------------------------------- the loop: closure_call_rx.recv_many(..)
\* A lookup that lets the call go without running anything.
SpawnCall_drop(cl, rest) ==
  /\ calls' = rest
  /\ loopPc' = IF rest = <<>> THEN "select" ELSE "calls"
  /\ justSet' = MovedOn("loop")
  /\ UNCHANGED <<pool, tasks>>

\* The closure the loop looks up for a queued call, spawns on the pool and
\* awaits; a missing id is fatal.
SpawnCall(cl, rest) ==
  /\ calls' = rest
  /\ IF cl \in ClosureIds
       THEN /\ pool' = ClosureBody(cl)
            /\ loopPc' = "await_call"
            /\ justSet' = MovedOn("loop")
            /\ UNCHANGED tasks
       ELSE Closed /\ UNCHANGED pool

\* recv_many moves the queued calls into the batch; the first one is spawned.
DrainCalls ==
  /\ LoopReady /\ callq # <<>>
  /\ LET n == Min(Len(callq), RecvLimit) IN
       /\ callq' = SubSeq(callq, n + 1, Len(callq))
       /\ SpawnCall(Head(callq), SubSeq(callq, 2, n))
  /\ UNCHANGED <<value, bus, updates, ui, li, tmp, pend, nInputs, client, ran,
                 batchRuns, tampered>>

\* for closure in &closures: the next one of the batch.
CallNext ==
  /\ loopPc = "calls" /\ calls # <<>>
  /\ SpawnCall(Head(calls), Tail(calls))
  /\ UNCHANGED <<value, bus, callq, updates, ui, li, tmp, pend, nInputs, client,
                 ran, batchRuns, tampered>>

\* ------------------------------------------ asynchronous recomputations
Remove(s, i) == SubSeq(s, 1, i - 1) \o SubSeq(s, i + 1, Len(s))

\* compute(states.get()): the dependencies are read when the task first runs;
\* the future may then suspend (.await) before it yields the value.
AsyncRead(i) ==
  /\ tasks[i].pc = "spawned"
  /\ tasks' = [tasks EXCEPT ![i] = [c |-> tasks[i].c, pc |-> "computed",
                                    val |-> compute(tasks[i].c, get(tasks[i].c))]]
  /\ UNCHANGED <<value, bus, callq, loopPc, updates, ui, li, calls, pool, tmp, pend,
                 nInputs, client, ran, batchRuns, tampered, justSet>>

\* state.set(..) of the computed value, up to the release of the write guard.
AsyncWrite(i) ==
  /\ tasks[i].pc = "computed"
  /\ TryWrite("task", tasks[i].c, tasks[i].val, "recompute")
  /\ tasks' = [tasks EXCEPT ![i] = [c |-> tasks[i].c, pc |-> "written",
                                    val |-> tasks[i].val]]
  /\ UNCHANGED <<bus, callq, loopPc, updates, ui, li, calls, pool, tmp, pend,
                 nInputs, client, ran, batchRuns>>

\* The change is sent and the task completes.
AsyncSend(i) ==
  /\ tasks[i].pc = "written"
  /\ bus' = changes_tx_send(Written(tasks[i].c, tasks[i].val))
  /\ tasks' = Remove(tasks, i)
  /\ UNCHANGED <<value, callq, loopPc, updates, ui, li, calls, pool, tmp, pend,
                 nInputs, client, ran, batchRuns, tampered, justSet>>

\* ------------------------------------------------- the background task
\* counter.set(v) from a task spawned with tokio::spawn; once the session is
\* dropped try_write fails and nothing is written.
BgSet(v) ==
  /\ nInputs < MaxInputs /\ pend["bg"] = <<>>
  /\ nInputs' = nInputs + 1
  /\ IF Alive
       THEN /\ TryWrite("bg", "counter", v, "user")
            /\ pend' = [pend EXCEPT !["bg"] = <<Written("counter", v)>>]
       ELSE UNCHANGED <<value, tampered, justSet, pend>>
  /\ UNCHANGED <<bus, callq, loopPc, updates, ui, li, calls, pool, tmp, tasks, client,
                 ran, batchRuns>>

\* ------------------------------------------------------------------ Next
Vals == 0..MaxVal

\* The payload is a value of the cells' type, typed or as its string form.
OfCellType(payload) ==
  /\ payload[1] \in {"Number", "String"}
  /\ payload[2] \in {to_string(v) : v \in 0..MaxVal}

\* Ghost: the frame of a SetState message, which names the cell when the
\* value is one of the cell's type.
SetStateFrame(id, payload) ==
  IF id \in Cells /\ ~OfCellType(payload) THEN <<"SetState", "mistyped">>
  ELSE <<"SetState", id>>

\* Ghost: socket.recv() yielded the frame f on this step; no frame on this step.
Received(f) == frame' = f /\ UNCHANGED <<rvars, svars, cvars, dvars, hvars, ivars>>

NoFrame == frame' = frame /\ UNCHANGED <<rvars, svars, cvars, dvars, hvars, ivars>>

Next ==
  \/ \E cl \in ClosureIds \cup {"unknown"} : RecvClosure(cl) /\ Received(<<"Closure", cl>>)
  \/ \E name \in EventNames \cup {"unknown"}, x \in Vals :
       RecvEvent(name, x) /\ Received(<<"Event", name>>)
  \/ \E id \in Cells \cup {"unknown"}, payload \in Payloads :
       RecvSetState(id, payload) /\ Received(SetStateFrame(id, payload))
  \/ RecvSkip /\ Received(<<"Binary", "">>)
  \/ RecvMalformed /\ Received(<<"Text", "">>)
  \/ RecvEnd /\ Received(<<"None", "">>)
  \/ PoolStep /\ NoFrame
  \/ DrainChanges /\ NoFrame
  \/ SyncListener /\ NoFrame
  \/ RecomputeReturn /\ NoFrame
  \/ SendUpdate /\ NoFrame
  \/ DrainCalls /\ NoFrame
  \/ CallNext /\ NoFrame
  \/ \E t \in Threads : ThreadSend(t) /\ NoFrame
  \/ \E i \in 1..Len(tasks) : AsyncRead(i) /\ NoFrame
  \/ \E i \in 1..Len(tasks) : AsyncWrite(i) /\ NoFrame
  \/ \E i \in 1..Len(tasks) : AsyncSend(i) /\ NoFrame
  \/ \E v \in Vals : BgSet(v) /\ NoFrame

Spec == Init /\ [][Next]_vars

\* The same loop with its scheduling: the runtime keeps polling the
\* connection's task, the pool's thread and the spawned tasks, so a step of
\* theirs that stays possible is taken; the browser and the background
\* thread owe nothing.
Fairness ==
  /\ WF_vars(PoolStep)
  /\ WF_vars(DrainChanges)
  /\ WF_vars(SyncListener)
  /\ WF_vars(RecomputeReturn)
  /\ WF_vars(SendUpdate)
  /\ WF_vars(DrainCalls)
  /\ WF_vars(CallNext)
  /\ \A t \in Threads : WF_vars(ThreadSend(t))
  /\ WF_vars(\E i \in 1..Len(tasks) : AsyncRead(i))
  /\ WF_vars(\E i \in 1..Len(tasks) : AsyncWrite(i))
  /\ WF_vars(\E i \in 1..Len(tasks) : AsyncSend(i))

SpecFair == Init /\ [][Next]_vars /\ Fairness

\* ------------------------------------------------------ event registries
\* Registrations a handler makes.
MaxRegs == 3

\* Event names a handler registers under; a client may name any other.
Names == {"click", "key"}

\* Payload types P of the registered closures: serde_json::Value, and
\* structs with the fields x, with x and y, and with y.
PayloadTypes == {"Value", "X", "XY", "Y"}

\* helpers::struct_fields::<P>(): the field names of a struct, None otherwise.
struct_fields(P) ==
  CASE P = "Value" -> "None"
    [] P = "X" -> <<"x">>
    [] P = "XY" -> <<"x", "y">>
    [] P = "Y" -> <<"y">>

\* HashMap::insert: the entry of k is v, whatever it was.
Insert(m, k, v) == [x \in DOMAIN m \cup {k} |-> IF x = k THEN v ELSE m[x]]

\* A registration that keeps the field names of the latest handler only.
add_latest_params(ev, name, h, P) ==
  LET fs == IF struct_fields(P) = "None" THEN {} ELSE Range(struct_fields(P)) IN
    IF name \in DOMAIN ev
      THEN [ev EXCEPT ![name] = [handlers |-> Append(@.handlers, h), params |-> fs]]
      ELSE Insert(ev, name, [handlers |-> <<h>>, params |-> fs])

\* Events::add: a name already there gets the handler pushed and the field
\* names of P inserted into its set; a new name gets a fresh Event.
add(ev, name, h, P) ==
  IF name \in DOMAIN ev
    THEN [ev EXCEPT ![name] =
            [handlers |-> Append(@.handlers, h),
             params |-> IF struct_fields(P) = "None" THEN @.params
                        ELSE @.params \cup Range(struct_fields(P))]]
    ELSE Insert(ev, name,
                [handlers |-> <<h>>,
                 params |-> Range(IF struct_fields(P) = "None" THEN <<>>
                                  ELSE struct_fields(P))])

\* Context::on: self.event_handlers.insert(name.to_string(), Arc::new(..)).
on(eh, name, h) == Insert(eh, name, h)

\* Events::handle: every handler of the name is spawned on the join set
\* with a clone of the payload; an unknown name spawns nothing.
handle(ev, name, params) ==
  IF name \notin DOMAIN ev THEN <<>>
  ELSE [i \in 1..Len(ev[name].handlers) |-> <<ev[name].handlers[i], params>>]

\* handle_socket_message, InMessage::Event: events.get(&name) and
\* event.call(params) on the pool; a miss calls nothing.
event_call(eh, name, params) ==
  IF name \notin DOMAIN eh THEN <<>> ELSE <<<<eh[name], params>>>>

\* An iteration over a hash set or the keys of a hash map: each element
\* once, in some order.
RECURSIVE Iter(_)
Iter(S) == IF S = {} THEN <<>> ELSE LET x == CHOOSE x \in S : TRUE IN <<x>> \o Iter(S \ {x})

\* Events::list: the names of the map, each with an iterator over its params.
list(ev) ==
  LET ns == Iter(DOMAIN ev) IN [i \in 1..Len(ns) |-> <<ns[i], Iter(ev[ns[i]].params)>>]

\* ctx.on(name, closure) while the handler runs: the closure is the h-th one
\* registered; both registries get it.
On(name, P) ==
  /\ handled = <<>> /\ Len(registered) < MaxRegs
  /\ LET h == Len(registered) + 1 IN
       /\ events' = add(events, name, h, P)
       /\ event_handlers' = on(event_handlers, name, h)
       /\ registered' = Append(registered, [name |-> name, h |-> h, P |-> P])
  /\ UNCHANGED <<join_set, called, handled>>

\* An event of the client is dispatched, through Events::handle and through
\* the loop's own lookup.
Handle(name, params) ==
  /\ join_set' = handle(events, name, params)
  /\ called' = event_call(event_handlers, name, params)
  /\ handled' = <<name, params>>
  /\ UNCHANGED <<events, event_handlers, registered>>

NextEvents ==
  \/ \E name \in Names, P \in PayloadTypes : On(name, P) /\ UNCHANGED <<vars, frame, svars, cvars, dvars, hvars, ivars>>
  \/ \E name \in Names \cup {"unknown"}, params \in Vals :
       Handle(name, params) /\ UNCHANGED <<vars, frame, svars, cvars, dvars, hvars, ivars>>

SpecEvents == Init /\ [][NextEvents]_<<vars, frame, rvars, svars, cvars, dvars, hvars, ivars>>

\* ---------------------------------------------- rendering and upgrading
\* Seeds random() yields are 0..MaxSeed.
MaxSeed == 2
\* Declarations a handler makes.
MaxDecls == 3
\* Elements of the markup tree.
MaxElems == 2

\* const RANDOM_ID_LENGTH: usize = 8
RANDOM_ID_LENGTH == 8

Seeds == 0..MaxSeed

\* The word the generator seeded with seed yields at position pos, cut to the
\* six bits Alphanumeric samples: a fixed function of the seed and the position.
next_u32(seed, pos) == ((seed + 1) * 37 + pos * 11 + pos * pos * (seed + 3)) % 64

\* rng.sample(Alphanumeric): the next word below 62 picks the character, the
\* others are drawn and dropped. The result is <<character, next position>>.
RECURSIVE sample(_, _)
sample(seed, pos) ==
  IF next_u32(seed, pos) < 62 THEN <<next_u32(seed, pos), pos + 1>>
  ELSE sample(seed, pos + 1)

\* RandomId::from_rng: RANDOM_ID_LENGTH samples, one after the other.
\* The result is <<id, next position>>.
RECURSIVE from_rng(_, _, _)
from_rng(seed, pos, sofar) ==
  IF Len(sofar) = RANDOM_ID_LENGTH THEN <<sofar, pos>>
  ELSE from_rng(seed, sample(seed, pos)[2], Append(sofar, sample(seed, pos)[1]))

\* A context whose generator starts from where the flag says.
Context_new_by_flag(seed, in_websocket) ==
  [seed |-> seed, in_websocket |-> in_websocket,
   pos |-> IF in_websocket THEN 1 ELSE 0,
   minted |-> <<>>, pc |-> 1, given |-> FALSE, elems |-> <<>>]

\* Context::new(seed, in_websocket): StdRng::seed_from_u64(seed), empty registries.
Context_new(seed, in_websocket) ==
  [seed |-> seed, in_websocket |-> in_websocket, pos |-> 0,
   minted |-> <<>>, pc |-> 1, given |-> FALSE, elems |-> <<>>]

\* use_state_inner and use_closure: mint an id from the context's generator
\* and insert it into the registry of its kind.
Mint(c, kind) ==
  LET r == from_rng(c.seed, c.pos, <<>>) IN
    [c EXCEPT !.pos = r[2], !.minted = Append(@, [kind |-> kind, id |-> r[1]]), !.pc = @ + 1]

\* The keys of Context::states and of Context::closures.
Registry(c, kind) == {c.minted[i].id : i \in {j \in 1..Len(c.minted) : c.minted[j].kind = kind}}

\* Element::give_ids over the tree in walk order: a reactive element that
\* has no id gets one from the generator. The result is <<ids, next position>>.
RECURSIVE give_ids(_, _, _, _, _)
give_ids(t, i, seed, pos, ids) ==
  IF i > Len(t) THEN <<ids, pos>>
  ELSE IF t[i]
    THEN give_ids(t, i + 1, seed, from_rng(seed, pos, <<>>)[2],
                  Append(ids, from_rng(seed, pos, <<>>)[1]))
    ELSE give_ids(t, i + 1, seed, pos, ids)

\* rng_seed.to_string(), and what the upgrade request may carry instead.
QueryStrings == {to_string(n) : n \in Seeds} \cup {"", "abc", "-1", "+1", "01", "None"}

\* Result<u64, _>
Ok(n) == <<"Ok", n>>

Err == <<"Err">>

\* A parse that takes anything it cannot read for zero.
parse_u64_or_zero(q) ==
  CASE q = "+1" \/ q = "01" -> Ok(1)
    [] \E n \in Seeds : to_string(n) = q -> Ok(CHOOSE n \in Seeds : to_string(n) = q)
    [] OTHER -> Ok(0)

\* query.get("coaxial-seed").expect(..).parse::<u64>().expect(..): the number
\* the decimal text is of, a leading + or zeros allowed; Err for a missing
\* parameter or any other text.
parse_u64(q) ==
  CASE q = "+1" \/ q = "01" -> Ok(1)
    [] \E n \in Seeds : to_string(n) = q -> Ok(CHOOSE n \in Seeds : to_string(n) = q)
    [] OTHER -> Err

\* The declarations a handler may make: each mints one id.
Decls == {"state", "closure"}

Programs == UNION {[1..n -> Decls] : n \in 0..MaxDecls}

\* Markup trees: per element, whether it is reactive.
Trees == UNION {[1..n -> BOOLEAN] : n \in 0..MaxElems}

\* A request that is no upgrade: let rng_seed: u64 = random(); the handler
\* is called with Context::new(rng_seed, false).
Render(seed, p, t) ==
  /\ phase = "new"
  /\ phase' = "rendering"
  /\ prog' = p
  /\ tree' = t
  /\ ctx' = [ctx EXCEPT !["render"] = Context_new(seed, FALSE)]
  /\ UNCHANGED <<page, query>>

\* The handler's next declaration, in the render run or the upgrade run.
Declare(r) ==
  /\ phase = (IF r = "render" THEN "rendering" ELSE "upgrading")
  /\ ctx[r].pc <= Len(prog)
  /\ ctx' = [ctx EXCEPT ![r] = Mint(@, prog[@.pc])]
  /\ UNCHANGED <<phase, prog, tree, page, query>>

\* A draw at any point of the handler's run.
HandlerReturned_any(c) == TRUE

\* handler.call(..).await has returned: every declaration is made.
HandlerReturned(c) == c.pc > Len(prog)

\* element.optimize(); element.give_ids(&mut body.context.rng);
GiveIds ==
  /\ phase = "rendering" /\ HandlerReturned(ctx["render"]) /\ ~ctx["render"].given
  /\ LET c == ctx["render"]
         r == give_ids(tree, 1, c.seed, c.pos, <<>>)
     IN ctx' = [ctx EXCEPT !["render"] = [c EXCEPT !.pos = r[2], !.given = TRUE, !.elems = r[1]]]
  /\ UNCHANGED <<phase, prog, tree, page, query>>

\* The document: the markup with the ids in it and the adapter script with
\* the seed's decimal text.
Respond ==
  /\ phase = "rendering" /\ ctx["render"].pc > Len(prog) /\ ctx["render"].given
  /\ page' = [seed |-> to_string(ctx["render"].seed),
               states |-> Registry(ctx["render"], "state"),
               closures |-> Registry(ctx["render"], "closure"),
               elems |-> ctx["render"].elems]
  /\ phase' = "rendered"
  /\ UNCHANGED <<prog, tree, ctx, query>>

\* The upgrade request: the seed is read from the query before anything
\* else; a missing or unreadable one panics, a number seeds the context the
\* handler is called with again.
Upgrade(q) ==
  /\ phase = "rendered"
  /\ query' = q
  /\ IF parse_u64(q) = Err
       THEN phase' = "panicked" /\ UNCHANGED ctx
       ELSE /\ phase' = "upgrading"
            /\ ctx' = [ctx EXCEPT !["live"] = Context_new(parse_u64(q)[2], TRUE)]
  /\ UNCHANGED <<prog, tree, page>>

\* ws.on_upgrade(..): the handler has returned and the loop starts.
OnUpgrade ==
  /\ phase = "upgrading" /\ ctx["live"].pc > Len(prog)
  /\ phase' = "active"
  /\ UNCHANGED <<prog, tree, ctx, page, query>>

NextSession ==
  \/ \E seed \in Seeds, p \in Programs, t \in Trees :
       Render(seed, p, t) /\ UNCHANGED <<vars, frame, rvars, cvars, dvars, hvars, ivars>>
  \/ \E r \in {"render", "live"} : Declare(r) /\ UNCHANGED <<vars, frame, rvars, cvars, dvars, hvars, ivars>>
  \/ GiveIds /\ UNCHANGED <<vars, frame, rvars, cvars, dvars, hvars, ivars>>
  \/ Respond /\ UNCHANGED <<vars, frame, rvars, cvars, dvars, hvars, ivars>>
  \/ \E q \in QueryStrings : Upgrade(q) /\ UNCHANGED <<vars, frame, rvars, cvars, dvars, hvars, ivars>>
  \/ OnUpgrade /\ UNCHANGED <<vars, frame, rvars, cvars, dvars, hvars, ivars>>

SpecSession == Init /\ [][NextSession]_<<vars, frame, rvars, svars, cvars, dvars, hvars, ivars>>

\* ------------------------------------------ deriving computed states
\* The handler of the loop's model, its declarations taken one at a time in
\* any order the borrow of a dependency allows, with State::set calls between
\* them; on a live connection the loop takes the changes off the channel.
MaxSets == 2

InitialValues == {<<m, v>> : m \in {"Value", "ValueAndCompute"}, v \in 0..MaxVal}

\* StateGetter::get() of c's dependencies in the cells cs.
get_in(cs, c) == [i \in 1..Len(id_list(c)) |-> cs[id_list(c)[i]]]

\* A recomputation wanted whenever the policy asks for one.
immediately_recompute_anywhere(initial, in_websocket) == initial[1] = "ValueAndCompute"

\* needs_recompute && self.in_websocket
immediately_recompute(initial, in_websocket) ==
  initial[1] = "ValueAndCompute" /\ in_websocket

\* Context::<()>::new(0, in_websocket)
NewContext(ws) ==
  /\ ~made
  /\ made' = TRUE
  /\ websocket' = ws
  /\ UNCHANGED <<declared, cell, listeners, listeners_async, recomputations, changed,
                 nSets, policy, depChanged, spawns>>

\* ctx.use_state(value)
use_state(id) ==
  /\ made /\ id \in StateIds \ declared
  /\ declared' = declared \cup {id}
  /\ cell' = [cell EXCEPT ![id] = InitialValue(id)]
  /\ UNCHANGED <<made, websocket, listeners, listeners_async, recomputations, changed,
                 nSets, policy, depChanged, spawns>>

\* state.set(v): the value, then the change on the channel.
StateSet(id, v) ==
  /\ id \in StateIds \cap declared /\ nSets < MaxSets
  /\ nSets' = nSets + 1
  /\ cell' = [cell EXCEPT ![id] = v]
  /\ changed' = Append(changed, id)
  /\ depChanged' = (depChanged \/ (policy # <<>> /\ id \in Range(id_list("delayed_update"))))
  /\ UNCHANGED <<made, websocket, declared, listeners, listeners_async, recomputations,
                 policy, spawns>>

\* ctx.use_computed(states, compute): the value computed now, the listener
\* under every id.
use_computed(c) ==
  /\ made /\ c \in SyncIds \ declared /\ Range(id_list(c)) \subseteq declared
  /\ declared' = declared \cup {c}
  /\ cell' = [cell EXCEPT ![c] = compute(c, get_in(cell, c))]
  /\ listeners' = add_computed(listeners, c)
  /\ UNCHANGED <<made, websocket, listeners_async, recomputations, changed, nSets,
                 policy, depChanged, spawns>>

\* ctx.use_computed_async_with(states, compute, initial)
use_computed_async_with(c, initial) ==
  /\ made /\ c \in AsyncIds \ declared /\ Range(id_list(c)) \subseteq declared
  /\ declared' = declared \cup {c}
  /\ cell' = [cell EXCEPT ![c] = initial[2]]
  /\ listeners_async' = add_computed_async(listeners_async, c)
  /\ policy' = initial
  /\ IF immediately_recompute(initial, websocket)
       THEN recomputations' = Append(recomputations, c) /\ spawns' = spawns + 1
       ELSE UNCHANGED <<recomputations, spawns>>
  /\ depChanged' = (Range(id_list(c)) \cap Range(changed) # {})
  /\ UNCHANGED <<made, websocket, listeners, changed, nSets>>

\* for func in funcs { (*func)() }: each sets its cell from the cells as they are.
RECURSIVE RunListeners(_, _, _)
RunListeners(cs, ls, i) ==
  IF i > Len(ls) THEN cs
  ELSE RunListeners([cs EXCEPT ![ls[i]] = compute(ls[i], get_in(cs, ls[i]))], ls, i + 1)

\* The loop takes a change off the channel: recompute_dependents(id).
recompute_dependents ==
  /\ websocket /\ changed # <<>>
  /\ LET id == Head(changed) IN
       /\ cell' = RunListeners(cell, listeners[id], 1)
       /\ changed' = Tail(changed) \o listeners[id]
       /\ recomputations' = recomputations \o listeners_async[id]
       /\ spawns' = spawns + Len(listeners_async[id])
  /\ UNCHANGED <<made, websocket, declared, listeners, listeners_async, nSets, policy,
                 depChanged>>

\* A spawned recomputation runs: state.set(compute(states.get()).await)
recomputation(i) ==
  /\ LET c == recomputations[i] IN
       /\ cell' = [cell EXCEPT ![c] = compute(c, get_in(cell, c))]
       /\ changed' = Append(changed, c)
  /\ recomputations' = Remove(recomputations, i)
  /\ UNCHANGED <<made, websocket, declared, listeners, listeners_async, nSets, policy,
                 depChanged, spawns>>

NextDerive ==
  \/ \E ws \in BOOLEAN : NewContext(ws) /\ UNCHANGED <<vars, frame, rvars, svars, cvars, hvars, ivars>>
  \/ \E id \in StateIds : use_state(id) /\ UNCHANGED <<vars, frame, rvars, svars, cvars, hvars, ivars>>
  \/ \E id \in StateIds, v \in 0..MaxVal :
       StateSet(id, v) /\ UNCHANGED <<vars, frame, rvars, svars, cvars, hvars, ivars>>
  \/ \E c \in SyncIds : use_computed(c) /\ UNCHANGED <<vars, frame, rvars, svars, cvars, hvars, ivars>>
  \/ \E c \in AsyncIds, initial \in InitialValues :
       use_computed_async_with(c, initial) /\ UNCHANGED <<vars, frame, rvars, svars, cvars, hvars, ivars>>
  \/ recompute_dependents /\ UNCHANGED <<vars, frame, rvars, svars, cvars, hvars, ivars>>
  \/ \E i \in 1..Len(recomputations) :
       recomputation(i) /\ UNCHANGED <<vars, frame, rvars, svars, cvars, hvars, ivars>>

SpecDerive == Init /\ [][NextDerive]_<<vars, frame, rvars, svars, cvars, dvars, hvars, ivars>>

\* ------------------------------------------------- markup: html::Content
\* A Content is a record: its variant t, its string s (a sequence of
\* characters; the state id and display of a State; the name of an Element),
\* its items (of a List; the content of an Element) and the id of an Element
\* (0 for None, k for the k-th id drawn). The attributes of an Element are
\* the state descriptors of its "value" attribute, an Attribute::Value of an
\* AttributeValue::State: none, or one. Element::optimize does not touch them.
MaxNodes == 5

Mk(t, s, items) == [t |-> t, s |-> s, items |-> items, id |-> 0, attributes |-> <<>>]

Empty == Mk("Empty", <<>>, <<>>)

Raw(s) == Mk("Raw", s, <<>>)

Text(s) == Mk("Text", s, <<>>)

\* Content::State(StateDescriptor { display, state_id })
StateContent(state_id) == Mk("State", <<state_id, "0">>, <<>>)

List(items) == Mk("List", <<>>, items)

ElementContent(name, c) == Mk("Element", <<name>>, <<c>>)

\* An element with attributes: p(content, attributes), input(attributes).
ElementWith(name, c, attributes) ==
  [ElementContent(name, c) EXCEPT !.attributes = attributes]

\* Of the void elements, input.
VOID_ELEMENTS == {"input"}

\* What a handler may give an element for attributes.
AttributeSets == {<<>>, <<<<"s1", "0">>>>}

Leaves ==
  {Empty, Text(<<"<">>), Raw(<<"b">>), StateContent("s1"), StateContent("s2")}
    \cup {ElementWith("input", Empty, a) : a \in AttributeSets}

\* The contents of exactly n nodes, and the item vectors of n nodes in all.
RECURSIVE ContentsOfSize(_), ItemsOfSize(_)
ContentsOfSize(n) ==
  IF n = 0 THEN {}
  ELSE (IF n = 1 THEN Leaves ELSE {})
         \cup {List(l) : l \in ItemsOfSize(n - 1)}
         \cup {ElementWith("p", c, a) : c \in ContentsOfSize(n - 1), a \in AttributeSets}
ItemsOfSize(n) ==
  IF n = 0 THEN {<<>>}
  ELSE UNION {{<<c>> \o r : c \in ContentsOfSize(k), r \in ItemsOfSize(n - k)} : k \in 1..n}

\* The contents of n nodes or fewer.
ContentsUpTo(n) == UNION {ContentsOfSize(k) : k \in 1..n}

\* html_escape::encode_text
encode_text(s) ==
  [i \in 1..Len(s) |->
     CASE s[i] = "&" -> "&amp;" [] s[i] = "<" -> "&lt;" [] s[i] = ">" -> "&gt;"
       [] OTHER -> s[i]]

\* html_escape::encode_script_single_quoted_text
encode_script_single_quoted_text(s) ==
  [i \in 1..Len(s) |-> IF s[i] = "'" THEN "\\'" ELSE s[i]]

\* A text_to_raw that keeps the text as it is.
text_to_raw_unescaped(c) == IF c.t = "Text" THEN Raw(c.s) ELSE c

\* Content::text_to_raw
text_to_raw(c) == IF c.t = "Text" THEN Raw(encode_text(c.s)) ELSE c

\* matches!(.., Content::Text(_) | Content::Raw(_))
is_literal(c) == c.t \in {"Text", "Raw"}

\* The first loop of optimize_list, at index i (from 1): a list at i is
\* swapped for Empty and its items spliced in before it; the loop stops
\* before the last item.
RECURSIVE flatten_lists(_, _)
flatten_lists(l, i) ==
  IF ~(i < Len(l)) THEN l
  ELSE IF l[i].t = "List"
         THEN flatten_lists(SubSeq(l, 1, i - 1) \o l[i].items \o <<Empty>>
                              \o SubSeq(l, i + 1, Len(l)), i)
         ELSE flatten_lists(l, i + 1)

\* A retain that keeps everything.
retain_all(l) == l

\* list.retain(|content| !matches!(content, Content::Empty))
retain(l) == SelectSeq(l, LAMBDA c : c.t # "Empty")

\* The last loop of optimize_list, at index i (from 1): two adjacent
\* literals become one Raw, and the index is advanced either way.
RECURSIVE merge_adjacent(_, _)
merge_adjacent(l, i) ==
  IF ~(i < Len(l)) THEN l
  ELSE IF is_literal(l[i]) /\ is_literal(l[i + 1])
         THEN merge_adjacent(SubSeq(l, 1, i - 1)
                               \o <<Raw(text_to_raw(l[i]).s \o text_to_raw(l[i + 1]).s)>>
                               \o SubSeq(l, i + 2, Len(l)), i + 1)
         ELSE merge_adjacent(l, i + 1)

optimize_list(l) == merge_adjacent(retain(flatten_lists(l, 1)), 1)

\* A list left as it is unless it is empty.
promote_none(l) == IF Len(l) = 0 THEN Empty ELSE List(l)

\* What a list is changed for: Empty when nothing is left, its item when
\* one is.
promote(l) ==
  IF Len(l) = 0 THEN Empty ELSE IF Len(l) = 1 THEN l[1] ELSE List(l)

\* Content::optimize and Element::optimize
RECURSIVE optimize(_)
optimize(c) ==
  CASE c.t = "Element" -> [c EXCEPT !.items = <<optimize(c.items[1])>>]
    [] c.t = "List" ->
         LET l == [i \in 1..Len(c.items) |-> optimize(c.items[i])] IN
           IF Len(l) < 2 THEN promote(l) ELSE promote(optimize_list(l))
    [] OTHER -> c

\* Content::is_reactive
RECURSIVE is_reactive(_)
is_reactive(c) ==
  CASE c.t = "List" -> \E i \in 1..Len(c.items) : is_reactive(c.items[i])
    [] c.t = "State" -> TRUE
    [] OTHER -> FALSE

\* Attributes::is_reactive
Attributes_is_reactive(attributes) == attributes # <<>>

\* An is_reactive that looks at the content only.
Element_is_reactive_content(e) == is_reactive(e.items[1])

\* Element::is_reactive
Element_is_reactive(e) ==
  is_reactive(e.items[1]) \/ Attributes_is_reactive(e.attributes)

\* Content::give_ids and Element::give_ids, n ids drawn so far: the content
\* with its ids, and the ids drawn after.
RECURSIVE Content_give_ids(_, _), List_give_ids(_, _, _)
Content_give_ids(c, n) ==
  CASE c.t = "List" ->
         LET r == List_give_ids(c.items, 1, n) IN <<[c EXCEPT !.items = r[1]], r[2]>>
    [] c.t = "Element" ->
         LET gets == Element_is_reactive(c) /\ c.id = 0
             n1 == IF gets THEN n + 1 ELSE n
             r == Content_give_ids(c.items[1], n1)
         IN <<[c EXCEPT !.id = IF gets THEN n1 ELSE @, !.items = <<r[1]>>], r[2]>>
    [] OTHER -> <<c, n>>
List_give_ids(l, i, n) ==
  IF i > Len(l) THEN <<l, n>>
  ELSE LET r == Content_give_ids(l[i], n) IN
         List_give_ids([l EXCEPT ![i] = r[1]], i + 1, r[2])

RECURSIVE Concat(_)
Concat(ss) == IF ss = <<>> THEN <<>> ELSE Head(ss) \o Concat(Tail(ss))

\* reactive_js::Content
Var(idx) == [k |-> "Var", idx |-> idx, text |-> <<>>]

Slot(text) == [k |-> "Text", idx |-> 0, text |-> text]

\* states.iter().position(|s| *s == descriptor)
position(states, d) ==
  (CHOOSE i \in 1..Len(states) : states[i] = d /\ \A j \in 1..(i - 1) : states[j] # d) - 1

\* group.iter().filter_map(|c| c.state()).collect()
states_of(group) ==
  LET sel == SelectSeq(group, LAMBDA c : c.t = "State") IN
    [i \in 1..Len(sel) |-> sel[i].s]

\* add_group: the descriptor of a run of Raw, Text and State items; nothing
\* for an element without an id. child_node_idx is <<>> for None.
add_group(descs, group, group_id, element_id) ==
  IF element_id = 0 THEN descs
  ELSE LET states == states_of(group) IN
    Append(descs,
      [element_id |-> element_id,
       child_node_idx |-> <<group_id>>,
       content |-> [i \in 1..Len(group) |->
                      CASE group[i].t = "Raw" -> Slot(group[i].s)
                        [] group[i].t = "Text" ->
                             Slot(encode_script_single_quoted_text(group[i].s))
                        [] group[i].t = "State" -> Var(position(states, group[i].s))],
       state_descriptors |-> states])

\* An is_text that takes a state for something else.
is_text_literal(c) == c.t \in {"Raw", "Text"}

\* matches!(content, Content::Raw(_) | Content::Text(_) | Content::State(_))
is_text(c) == c.t \in {"Raw", "Text", "State"}

\* Content::reactivity and Element::reactivity; group_loop is the for loop
\* over a list at item i, group being <<>> for None.
RECURSIVE Content_reactivity(_, _, _), group_loop(_, _, _, _, _, _)
Content_reactivity(c, element_id, descs) ==
  CASE c.t = "List" -> group_loop(c.items, 1, <<>>, 0, element_id, descs)
    [] c.t = "State" ->
         IF element_id = 0 THEN descs
         ELSE Append(descs, [element_id |-> element_id, child_node_idx |-> <<>>,
                             content |-> <<Var(0)>>, state_descriptors |-> <<c.s>>])
    [] c.t = "Element" -> Content_reactivity(c.items[1], c.id, descs)
    [] OTHER -> descs
group_loop(l, i, group, group_id, element_id, descs) ==
  IF i > Len(l)
    THEN IF group # <<>> THEN add_group(descs, group, group_id - 1, element_id) ELSE descs
  ELSE IF is_text(l[i])
    THEN IF group # <<>>
           THEN group_loop(l, i + 1, Append(group, l[i]), group_id, element_id, descs)
           ELSE group_loop(l, i + 1, <<l[i]>>, group_id + 1, element_id, descs)
  ELSE LET d1 == IF group # <<>> THEN add_group(descs, group, group_id - 1, element_id)
                 ELSE descs
           d2 == IF l[i].t = "Element" THEN Content_reactivity(l[i].items[1], l[i].id, d1)
                 ELSE d1
       IN group_loop(l, i + 1, <<>>, group_id + 1, element_id, d2)

\* Attributes::reactivity over the elements that Content::reactivity and
\* Element::reactivity visit, in their order: an element's content first,
\* then its own attributes; of a list, the elements that are its items.
RECURSIVE Attributes_reactivity(_)
Attributes_reactivity(c) ==
  CASE c.t = "Element" ->
         Attributes_reactivity(c.items[1])
           \o (IF c.id # 0 /\ c.attributes # <<>>
                 THEN <<[element_id |-> c.id, attribute_key |-> "value",
                         state_descriptors |-> c.attributes, content |-> <<Var(0)>>]>>
                 ELSE <<>>)
    [] c.t = "List" ->
         Concat([i \in 1..Len(c.items) |->
                   IF c.items[i].t = "Element" THEN Attributes_reactivity(c.items[i])
                   ELSE <<>>])
    [] OTHER -> <<>>

\* on_state_change, as the pieces of text it pushes.
on_state_change(state_descriptors, element_id) ==
  LET state_count == Len(state_descriptors) IN
  <<"window.Coaxial.onStateChange(['">>
    \o Concat([i \in 1..state_count |->
                 <<state_descriptors[i][1], IF state_count = i THEN "'" ELSE "','">>])
    \o <<"], (">>
    \o Concat([i \in 1..state_count |->
                 <<"v" \o ToString(i - 1)>> \o (IF state_count # i THEN <<",">> ELSE <<>>)])
    \o <<") => { if (el = document.querySelector('[coax-id=\"", ToString(element_id),
         "\"]')) ">>

\* reactive_js::Content::script
slot_script(c) == IF c.k = "Text" THEN <<"'">> \o c.text \o <<"'">> ELSE <<"v" \o ToString(c.idx)>>

\* ElementContentReactivityDescriptor::script
descriptor_script(d) ==
  on_state_change(d.state_descriptors, d.element_id)
    \o (IF d.child_node_idx # <<>>
          THEN <<"if (el = el.childNodes[", ToString(d.child_node_idx[1]), "]) ">> ELSE <<>>)
    \o <<"el.textContent = ">>
    \o (IF Len(d.content) = 1 THEN slot_script(d.content[1])
        ELSE <<"[">>
               \o Concat([i \in 1..Len(d.content) |->
                            slot_script(d.content[i])
                              \o (IF i # Len(d.content) THEN <<",">> ELSE <<>>)])
               \o <<"].join('')">>)
    \o <<"; });">>

\* ElementAttributeReactivityDescriptor::script
attribute_script(d) ==
  on_state_change(d.state_descriptors, d.element_id)
    \o <<"el.setAttribute('", d.attribute_key, "', ">>
    \o (IF Len(d.content) = 1 THEN slot_script(d.content[1])
        ELSE <<"[">>
               \o Concat([i \in 1..Len(d.content) |->
                            slot_script(d.content[i])
                              \o (IF i # Len(d.content) THEN <<",">> ELSE <<>>)])
               \o <<"].join('')">>)
    \o <<"); });">>

\* Reactivity::script: the content descriptors' scripts in order, the
\* attribute descriptors' scripts in order, then one statement
\* for every entry of state_field_initial_values, a HashMap whose order of
\* iteration is not fixed: the statements are kept as the set of its entries.
Reactivity_script(descs, attrs) ==
  [handlers |-> Concat([i \in 1..Len(descs) |-> descriptor_script(descs[i])])
                  \o Concat([i \in 1..Len(attrs) |-> attribute_script(attrs[i])]),
   state |-> UNION {Range(descs[i].state_descriptors) : i \in 1..Len(descs)}
               \cup UNION {Range(attrs[i].state_descriptors) : i \in 1..Len(attrs)}]

\* The page of a root element with content c: element.optimize(),
\* element.give_ids(rng), element.reactivity(), reactivity.script().
Compiled(c) ==
  LET e == Content_give_ids(optimize(ElementContent("div", c)), 0)[1]
      descs == Content_reactivity(e, 0, <<>>)
  IN <<descs, Reactivity_script(descs, Attributes_reactivity(e))>>

\* Attributes::render: the key, and the display of the state in quotes.
Attributes_render(attributes) ==
  Concat([i \in 1..Len(attributes) |->
            <<"value", "=\"", attributes[i][2], "\"">>
              \o (IF i # Len(attributes) THEN <<" ">> ELSE <<>>)])

\* Content::render and Element::render, as the pieces of text pushed.
RECURSIVE render(_)
render(c) ==
  CASE c.t = "Raw" -> c.s
    [] c.t = "Text" -> encode_text(c.s)
    [] c.t = "State" -> <<c.s[2]>>
    [] c.t = "Element" ->
         <<"<", c.s[1]>>
           \o (IF c.attributes # <<>> THEN <<" ">> \o Attributes_render(c.attributes)
               ELSE <<>>)
           \o (IF c.s[1] \in VOID_ELEMENTS THEN <<" />">>
               ELSE (IF c.id # 0 THEN <<" coax-id=\"", ToString(c.id), "\"">> ELSE <<>>)
                      \o <<">">> \o render(c.items[1]) \o <<"</", c.s[1], ">">>)
    [] c.t = "List" -> Concat([i \in 1..Len(c.items) |-> render(c.items[i])])
    [] OTHER -> <<>>

\* The item vectors of the lists in c, c itself and the contents of elements
\* included.
RECURSIVE ListsIn(_)
ListsIn(c) ==
  (IF c.t = "List" THEN {c.items} ELSE {})
    \cup UNION {ListsIn(c.items[i]) : i \in 1..Len(c.items)}

\* Content with nothing in it: Empty, and a list of such.
RECURSIVE Nothing(_)
Nothing(c) ==
  \/ c.t = "Empty"
  \/ c.t = "List" /\ \A i \in 1..Len(c.items) : Nothing(c.items[i])

\* The elements in c, c itself included.
RECURSIVE ElementsIn(_)
ElementsIn(c) ==
  (IF c.t = "Element" THEN {c} ELSE {})
    \cup UNION {ElementsIn(c.items[i]) : i \in 1..Len(c.items)}

\* A literal or a state: what the browser shows as text.
Shown(c) == is_literal(c) \/ c.t = "State"

\* The maximal runs of literals and states in l, each as <<first, last>>.
RunsOf(l) ==
  {r \in (1..Len(l)) \X (1..Len(l)) :
     /\ r[1] <= r[2]
     /\ \A i \in r[1]..r[2] : Shown(l[i])
     /\ r[1] = 1 \/ ~Shown(l[r[1] - 1])
     /\ r[2] = Len(l) \/ ~Shown(l[r[2] + 1])}

\* The runs and the child elements of l that stand before item i.
NodesBefore(l, i) ==
  Cardinality({r \in RunsOf(l) : r[2] < i})
    + Cardinality({j \in 1..(i - 1) : l[j].t = "Element"})

\* The template of d has the items of run, one slot each, in their order.
ListsRun(d, run) ==
  /\ Len(d.content) = Len(run)
  /\ \A k \in 1..Len(run) :
       CASE run[k].t = "State" ->
              /\ d.content[k].k = "Var"
              /\ d.content[k].idx < Len(d.state_descriptors)
              /\ d.state_descriptors[d.content[k].idx + 1] = run[k].s
         [] run[k].t = "Raw" -> d.content[k] = Slot(run[k].s)
         [] OTHER -> d.content[k] = Slot(encode_script_single_quoted_text(run[k].s))

\* c is a state reference, or a list with one among its items or the items
\* of its nested lists.
RECURSIVE RefersToState(_)
RefersToState(c) ==
  \/ c.t = "State"
  \/ c.t = "List" /\ \E i \in 1..Len(c.items) : RefersToState(c.items[i])

\* The states c refers to, itself or through its lists.
RECURSIVE StatesIn(_)
StatesIn(c) ==
  IF c.t = "State" THEN {c.s}
  ELSE IF c.t = "List" THEN UNION {StatesIn(c.items[i]) : i \in 1..Len(c.items)}
  ELSE {}

\* The rendered text r has coax-id="id" in the opening tag it starts with.
TagHasId(r, id) ==
  \E i \in 1..(Len(r) - 2) :
    /\ r[i] = " coax-id=\"" /\ r[i + 1] = ToString(id) /\ r[i + 2] = "\""
    /\ \A j \in 1..i : r[j] \notin {">", " />"}

\* How often coax-id="id" stands in the rendered text r.
TimesRendered(r, id) ==
  Cardinality({i \in 1..(Len(r) - 1) : r[i] = " coax-id=\"" /\ r[i + 1] = ToString(id)})

\* element.give_ids() has run.
Identified == stage \in {"identified", "compiled"}

\* element.optimize() has run.
Optimized == stage \in {"optimized", "identified", "compiled"}

\* The handler returns its element.
Returned(c) ==
  /\ stage = "new"
  /\ stage' = "returned"
  /\ content' = c
  /\ element' = ElementContent("div", c)
  /\ UNCHANGED <<descriptors, attribute_descriptors, script>>

\* element.optimize()
ElementOptimize ==
  /\ stage = "returned"
  /\ stage' = "optimized"
  /\ element' = optimize(element)
  /\ UNCHANGED <<content, descriptors, attribute_descriptors, script>>

\* element.give_ids(&mut body.context.rng)
ElementGiveIds ==
  /\ stage = "optimized"
  /\ stage' = "identified"
  /\ element' = Content_give_ids(element, 0)[1]
  /\ UNCHANGED <<content, descriptors, attribute_descriptors, script>>

\* element.reactivity(&mut reactivity); reactivity.script()
ReactiveScripts ==
  /\ stage = "identified"
  /\ stage' = "compiled"
  /\ descriptors' = Content_reactivity(element, 0, <<>>)
  /\ attribute_descriptors' = Attributes_reactivity(element)
  /\ script' = Reactivity_script(descriptors', attribute_descriptors')
  /\ UNCHANGED <<content, element>>

NextMarkup ==
  \/ /\ stage = "new"
     /\ \E c \in ContentsUpTo(MaxNodes) : Returned(c)
     /\ UNCHANGED <<vars, frame, rvars, svars, cvars, dvars, ivars>>
  \/ ElementOptimize /\ UNCHANGED <<vars, frame, rvars, svars, cvars, dvars, ivars>>
  \/ ElementGiveIds /\ UNCHANGED <<vars, frame, rvars, svars, cvars, dvars, ivars>>
  \/ ReactiveScripts /\ UNCHANGED <<vars, frame, rvars, svars, cvars, dvars, ivars>>

SpecMarkup == Init /\ [][NextMarkup]_<<vars, frame, rvars, svars, cvars, dvars, hvars, ivars>>

\* ------------------------------------------------------------ RandomId
\* The characters a string is made of here: two alphanumeric ones, and
\* U+00E9, which is two bytes long in UTF-8.
Chars == {"a", "7", "U+00E9"}

\* The strings of n characters, and of n characters or fewer.
RECURSIVE StringsOfLen(_)
StringsOfLen(n) ==
  IF n = 0 THEN {<<>>} ELSE {<<c>> \o r : c \in Chars, r \in StringsOfLen(n - 1)}

StringsUpTo(n) == UNION {StringsOfLen(k) : k \in 0..n}

\* str::as_bytes: the UTF-8 bytes of the characters.
as_bytes(s) ==
  Concat([i \in 1..Len(s) |->
            CASE s[i] = "a" -> <<97>> [] s[i] = "7" -> <<55>> [] OTHER -> <<195, 169>>])

\* char::from(u8): the character whose code point the byte is.
char_from(b) ==
  CASE b = 97 -> "a" [] b = 55 -> "7" [] b = 195 -> "U+00C3" [] OTHER -> "U+00A9"

\* RandomId::fmt, and Display with it: one character for each byte.
fmt(id) == [i \in 1..Len(id) |-> char_from(id[i])]

\* bytes[..n]: the first n bytes; the index panics when there are fewer.
slice_to(bytes, n) ==
  IF n > Len(bytes) THEN <<"Panic", <<>>>> ELSE <<"Ok", SubSeq(bytes, 1, n)>>

\* <[u8; RANDOM_ID_LENGTH]>::try_from(&[u8]): an error unless the lengths agree.
try_into(slice) ==
  IF Len(slice) = RANDOM_ID_LENGTH THEN <<"Ok", slice>> ELSE <<"Err", <<>>>>

\* RandomId::try_from_str
try_from_str(s) ==
  LET slice == slice_to(as_bytes(s), RANDOM_ID_LENGTH) IN
    IF slice[1] = "Panic" THEN slice ELSE try_into(slice[2])

\* RandomId::from_str: unwrap_or_else(|_| panic!(..))
from_str_id(s) ==
  IF try_from_str(s)[1] = "Ok" THEN try_from_str(s) ELSE <<"Panic", <<>>>>

\* RandomIdVisitor::visit_str: the error of try_from_str becomes
\* E::invalid_length.
visit_str(v) == try_from_str(v)

TryFromStr(s) ==
  /\ function' = "try_from_str"
  /\ string' = s
  /\ returned' = try_from_str(s)

FromStr(s) ==
  /\ function' = "from_str"
  /\ string' = s
  /\ returned' = from_str_id(s)

\* A message of the browser names a closure or a state by the id s.
VisitStr(s) ==
  /\ function' = "visit_str"
  /\ string' = s
  /\ returned' = visit_str(s)

NextIds ==
  \/ /\ function = "none"
     /\ \E s \in StringsUpTo(RANDOM_ID_LENGTH) : TryFromStr(s)
     /\ UNCHANGED <<vars, frame, rvars, svars, cvars, dvars, hvars>>
  \/ /\ function = "none"
     /\ \E s \in StringsUpTo(RANDOM_ID_LENGTH) : FromStr(s)
     /\ UNCHANGED <<vars, frame, rvars, svars, cvars, dvars, hvars>>
  \/ /\ function = "none"
     /\ \E s \in StringsUpTo(RANDOM_ID_LENGTH) : VisitStr(s)
     /\ UNCHANGED <<vars, frame, rvars, svars, cvars, dvars, hvars>>

SpecIds == Init /\ [][NextIds]_<<vars, frame, rvars, svars, cvars, dvars, hvars, ivars>>

\* ------------------------------------------- a session of closure calls
\* The browser sends Closure messages only and no background task writes:
\* every write to a state cell is a closure's. A closure may have been
\* registered with a parameter the request does not resolve; the frame then
\* is noted as <<"Rejected", cl>>.

\* The fields of state cells among fs, in order.
StateFields(fs) == SelectSeq(fs, LAMBDA f : f[1] \in StateIds)

\* Ghost: what this step of the session sent, wrote, requested and started.
\* An Update carries UpdateFields of the batch; a closure's set is seen when
\* the pool's task holds a change to send; a call when the queue grows; an
\* execution when the loop starts to await a body for a queued call.
Observed ==
  /\ sent' = IF loopPc = "recompute" /\ loopPc' = "select"
                THEN Append(sent, UpdateFields(updates)) ELSE sent
  /\ wrote' = IF pend["pool"] = <<>> /\ pend'["pool"] # <<>>
                 THEN Append(wrote, <<pend'["pool"][1][1], pend'["pool"][1][3]>>)
                 ELSE wrote
  /\ requested' = IF Len(callq') > Len(callq)
                     THEN [requested EXCEPT ![callq'[Len(callq')]] = @ + 1]
                     ELSE requested
  /\ started' = [cl \in ClosureIds |->
                   IF loopPc # "await_call" /\ loopPc' = "await_call"
                      /\ pool' = ClosureBody(cl)
                     THEN started[cl] + 1 ELSE started[cl]]
  /\ UNCHANGED <<rvars, svars, dvars, hvars, ivars>>

NextCalls ==
  \/ \E cl \in ClosureIds : RecvClosure(cl) /\ frame' = <<"Closure", cl>> /\ Observed
  \/ \E cl \in ClosureIds :
       RecvClosureRejected(cl) /\ frame' = <<"Rejected", cl>> /\ Observed
  \/ RecvEnd /\ frame' = <<"None", "">> /\ Observed
  \/ PoolStep /\ frame' = frame /\ Observed
  \/ DrainChanges /\ frame' = frame /\ Observed
  \/ SyncListener /\ frame' = frame /\ Observed
  \/ RecomputeReturn /\ frame' = frame /\ Observed
  \/ SendUpdate /\ frame' = frame /\ Observed
  \/ DrainCalls /\ frame' = frame /\ Observed
  \/ CallNext /\ frame' = frame /\ Observed
  \/ \E t \in {"loop", "pool"} : ThreadSend(t) /\ frame' = frame /\ Observed
  \/ \E i \in 1..Len(tasks) : AsyncRead(i) /\ frame' = frame /\ Observed
  \/ \E i \in 1..Len(tasks) : AsyncWrite(i) /\ frame' = frame /\ Observed
  \/ \E i \in 1..Len(tasks) : AsyncSend(i) /\ frame' = frame /\ Observed

SpecCalls == Init /\ [][NextCalls]_<<vars, frame, rvars, svars, cvars, dvars, hvars, ivars>>

\* --------------------------------------------- vocabulary of the properties
\* The ids a computed state depends on.
Deps(c) == Range(id_list(c))

\* The ids of the changes in a batch.
ChangedIds(batch) == {batch[j][1] : j \in 1..Len(batch)}

\* Every change of d has gone through recompute_dependents: none is still to
\* be sent by the thread that wrote it, on the bus, or in the drained batch at
\* or after the call the loop is in.
NoChangePending(d) ==
  /\ \A t \in Threads : pend[t] = <<>> \/ pend[t][1][1] # d
  /\ \A i \in 1..Len(tasks) : tasks[i].pc # "written" \/ tasks[i].c # d
  /\ \A j \in 1..Len(bus) : bus[j][1] # d
  /\ \A j \in 1..Len(updates) : j < ui \/ updates[j][1] # d

\* recompute_dependents has been called, and has returned, for every changed
\* dependency of c.
Settled(c) == \A d \in Deps(c) : NoChangePending(d)

\* The step on which recompute_dependents(updates[ui]) returns.
RecomputeReturns == loopPc = "recompute" /\ ui' = ui + 1

\* The step on which the loop sends an Update and the client applies it.
UpdateApplied == loopPc = "recompute" /\ loopPc' = "select"

\* What the browser reads back from a string: the number it is the text of.
Nums == 0..(2 * (MaxVal + MaxInputs) + 1)

Parse(s) == CHOOSE n \in Nums : to_string(n) = s

\* compute_fn applied to the client's copies of c's dependencies.
ClientCompute(c, cl) == compute(c, [i \in 1..Len(id_list(c)) |-> Parse(cl[id_list(c)[i]])])

\* A set() of thread t returns Ok on this step; a recomputation task's does.
SetReturnsOk(t) == Alive /\ pend[t] # <<>> /\ pend'[t] = <<>>

TaskSetReturnsOk(i) ==
  loopPc' # "closed" /\ tasks[i].pc = "written" /\ tasks' = Remove(tasks, i)

\* Nothing is in flight: the bus is drained, the loop idle, no set half done.
Quiescent ==
  /\ loopPc = "select" /\ bus = <<>>
  /\ \A t \in Threads : pend[t] = <<>>
  /\ \A i \in 1..Len(tasks) : tasks[i].pc # "written"

\* A step of the loop's changes branch is possible.
ChangesBranch == DrainChanges \/ SyncListener \/ RecomputeReturn \/ SendUpdate

\* The loop has returned: nothing is received, drained, run or sent any more,
\* and no cell is written.
Terminated ==
  /\ loopPc' = "closed"
  /\ UNCHANGED <<value, bus, callq, updates, calls, pool, tasks, client, frame>>

\* On this step the loop looks up the closure of a queued call and misses.
QueuedCallMisses ==
  \/ LoopReady /\ callq # <<>> /\ Head(callq) \notin ClosureIds /\ callq' # callq
  \/ loopPc = "calls" /\ calls # <<>> /\ Head(calls) \notin ClosureIds /\ calls' # calls

\* The step leaves every cell, the bus and the client alone and starts no task.
NothingRuns == pool' = <<>> /\ tasks' = <<>> /\ UNCHANGED <<value, bus, client>>

\* The handlers registered under a name, in registration order.
HandlersOf(name) ==
  LET is == {i \in 1..Len(registered) : registered[i].name = name} IN
    {registered[i].h : i \in is}

\* The field names of the payload types registered under a name.
FieldsOf(name) ==
  UNION {IF struct_fields(registered[i].P) = "None" THEN {}
         ELSE Range(struct_fields(registered[i].P)) :
           i \in {j \in 1..Len(registered) : registered[j].name = name}}

\* How many times x occurs in the sequence s.
Count(s, x) == Cardinality({i \in 1..Len(s) : s[i] = x})

\* Every handler registered under the dispatched name was invoked once with
\* the payload, and nothing else was.
EachOnce(invoked) ==
  /\ \A h \in HandlersOf(handled[1]) : Count(invoked, <<h, handled[2]>>) = 1
  /\ Len(invoked) = Cardinality(HandlersOf(handled[1]))

\* The fields of a sequence of Update messages, one after the other.
RECURSIVE Flatten(_)
Flatten(ms) == IF ms = <<>> THEN <<>> ELSE Head(ms) \o Flatten(Tail(ms))

\* The change a closure has written and not sent yet, as a field.
PoolPending ==
  IF pend["pool"] = <<>> THEN <<>> ELSE <<<<pend["pool"][1][1], pend["pool"][1][3]>>>>

\* Upgrade requests without the parameter, and with one that is no number.
NoSeed == {"None", "", "abc", "-1"}

\* -------------------------------------------------------------- properties
\* C1: after the client has applied an Update, every synchronous computed
\* state c with a dependency whose new value is in that message has, on the
\* client, the value compute_fn gives for the client's values of c's
\* dependencies: never a stale computed value beside a fresher dependency.
C1_ClientComputedFresh ==
  [][UpdateApplied =>
       \A c \in SyncIds :
         Deps(c) \cap ChangedIds(updates) # {} =>
           client'[c] = to_string(ClientCompute(c, client'))]_vars

\* C2: changes reach the client in the order the writes committed, so once
\* the bus is drained and nothing is in flight the client's value of every
\* cell is the server's current value.
C2_ClientMatchesServer ==
  Quiescent => \A id \in Cells : client[id] = to_string(value[id])

\* C3: a set() that returns Ok enqueues exactly one change, carrying the
\* cell's id and the string of the value written; no other step enqueues
\* anything, and a write that fails leaves the bus and the cells alone.
C3_OneEventPerSet ==
  [][/\ \A t \in Threads :
          SetReturnsOk(t) =>
            bus' = Append(bus, <<pend[t][1][1], to_string(pend[t][1][2])>>)
     /\ \A i \in 1..Len(tasks) :
          TaskSetReturnsOk(i) =>
            bus' = Append(bus, <<tasks[i].c, to_string(tasks[i].val)>>)
     /\ ((\A t \in Threads : ~SetReturnsOk(t))
           /\ (\A i \in 1..Len(tasks) : ~TaskSetReturnsOk(i)))
          => \E n \in 0..Len(bus) : bus' = SubSeq(bus, n + 1, Len(bus))
     /\ ~Alive => bus' = bus /\ value' = value]_vars

\* A set returned, its change is on the bus behind another one, also one of a
\* closure's.
C3_Witness ==
  /\ Len(bus) >= 2
  /\ justSet["pool"] # <<>> /\ pend["pool"] = <<>>
  /\ bus[Len(bus)] = <<justSet["pool"][1][1], to_string(justSet["pool"][1][2])>>

\* C4: get() right after a set(v) that returned, with no write to the cell in
\* between, returns v; also for a set made inside a closure of the registry.
C4_GetAfterSet ==
  \A t \in Threads :
    (justSet[t] # <<>> /\ pend[t] = <<>>) => Get(justSet[t][1][1]) = justSet[t][1][2]

\* A closure has set a cell to a value it did not hold at first, while
\* another thread has set another cell.
C4_Witness ==
  /\ justSet["pool"] # <<>> /\ pend["pool"] = <<>>
  /\ justSet["pool"][1][2] # InitialValue(justSet["pool"][1][1])
  /\ justSet["loop"] # <<>> /\ pend["loop"] = <<>>

\* C5: when recompute_dependents returns, every synchronous computed state
\* that depends on the id it was called for, and that has no changed
\* dependency still waiting for its call, holds compute_fn of the current
\* values of all its dependencies.
C5_SyncComputedCurrent ==
  [][RecomputeReturns =>
       \A c \in SyncIds :
         (updates[ui][1] \in Deps(c) /\ Settled(c)') =>
           value'[c] = compute(c, get(c))']_vars

\* Both dependencies of total have been written, the call for the last of
\* their changes has returned, and total is their sum.
C5_Witness ==
  /\ loopPc = "recompute" /\ ui > 1 /\ li = 1 /\ updates[ui - 1][1] = "clicks"
  /\ Settled("total")
  /\ Get("counter") > 0 /\ Get("clicks") > 0
  /\ Get("total") = Get("counter") + Get("clicks")

\* C6: once every recomputation task has completed and every change of a
\* dependency has been through recompute_dependents, an asynchronous computed
\* state holds compute_fn of the current dependency values, in whatever order
\* overlapping tasks read and completed.
C6_AsyncComputedCurrent ==
  \A c \in AsyncIds :
    (/\ Alive /\ Settled(c) /\ c \notin tampered
     /\ \A i \in 1..Len(tasks) : tasks[i].c # c)
      => value[c] = compute(c, get(c))

\* C7: in one drained batch a computed state is recomputed once for each id
\* it depends on, however many changes of that id the batch holds.
C7_OncePerBatch ==
  \A c \in ComputedIds :
    batchRuns[c] <= Cardinality(Deps(c) \cap ChangedIds(updates))

\* C8: a computed state's value is written by its recompute function alone.
C8_ComputedOnlyRecomputed == tampered = {}

\* C9: when recompute_dependents(id) returns, every synchronous listener
\* registered for id has run exactly once, every asynchronous one has been
\* spawned exactly once and is not waited for, and no listener registered
\* only for other ids has run.
C9_ListenersOnce ==
  [][RecomputeReturns =>
       LET id == updates[ui][1]
           spawnedNow == SubSeq(tasks', Len(tasks) + 1, Len(tasks'))
       IN /\ \A c \in ComputedIds : ran'[c] = IF id \in Deps(c) THEN 1 ELSE 0
          /\ Len(spawnedNow) = Cardinality({c \in AsyncIds : id \in Deps(c)})
          /\ \A i \in 1..Len(spawnedNow) :
               spawnedNow[i].pc = "spawned" /\ id \in Deps(spawnedNow[i].c)
          /\ SubSeq(tasks', 1, Len(tasks)) = tasks]_vars

\* The call for counter has returned: its two synchronous listeners have run
\* once each, total being registered for clicks too, and the asynchronous one
\* is spawned and has not started.
C9_Witness ==
  /\ loopPc = "recompute" /\ ui > 1 /\ updates[ui - 1][1] = "counter" /\ li = 1
  /\ ran = [c \in ComputedIds |-> 1]
  /\ tasks # <<>> /\ tasks[Len(tasks)].pc = "spawned"

\* C10: while a closure is executing and changes are on the bus, the loop
\* goes on with them: it is not waiting for the closure to finish.
C10_LoopNeverWaits ==
  (pool # <<>> /\ bus # <<>>) => ENABLED ChangesBranch

C12_UnknownEventNoOp ==
  [][(\E x \in Vals : RecvEvent("unknown", x) /\ Received(<<"Event", "unknown">>)) =>
       (loopPc' = "select" /\ pool' = <<>> /\ UNCHANGED <<value, bus, client, tasks>>)]_vars

\* C13: handlers registered under one event name are additive: after n
\* registrations under a name, dispatching an event of that name invokes
\* each of the n handlers exactly once with the payload, in the Events
\* registry and for a handler registered with Context::on alike; a later
\* registration never replaces an earlier one.
C13_HandlersAdditive ==
  handled # <<>> => (EachOnce(join_set) /\ EachOnce(called))

\* C14: after any sequence of registrations list() yields each registered
\* name exactly once, with the field names of all the payload types
\* registered under it, each once.
C14_ListUnion ==
  LET l == list(events) IN
    /\ \A i \in 1..Len(registered) :
         Cardinality({j \in 1..Len(l) : l[j][1] = registered[i].name}) = 1
    /\ \A j \in 1..Len(l) :
         /\ HandlersOf(l[j][1]) # {}
         /\ Range(l[j][2]) = FieldsOf(l[j][1])
         /\ Len(l[j][2]) = Cardinality(FieldsOf(l[j][1]))

\* Three handlers, two of them under "click" with the fields x, and x and y.
C14_Witness ==
  /\ Len(registered) = 3 /\ DOMAIN events = Names
  /\ registered[1].name = "click" /\ registered[1].P = "X"
  /\ registered[3].name = "click" /\ registered[3].P = "XY"
  /\ \E j \in 1..2 : list(events)[j] \in {<<"click", <<"x", "y">>>>, <<"click", <<"y", "x">>>>}

\* C15: two sessions created with the same seed, whose handler makes the
\* same declarations in the same order, mint the same ids: the i-th id of
\* the one is the i-th id of the other, state cells and closures alike.
C15_SameSeedSameIds ==
  (phase \in {"upgrading", "active"} /\ ctx["render"].seed = ctx["live"].seed) =>
    \A i \in 1..Min(Len(ctx["render"].minted), Len(ctx["live"].minted)) :
      ctx["render"].minted[i] = ctx["live"].minted[i]

\* Both runs have declared a closure and two state cells from one seed, which
\* the upgrade request spelled otherwise than the page did.
C15_Witness ==
  /\ phase = "active" /\ ctx["render"].seed = ctx["live"].seed /\ query # page.seed
  /\ Len(ctx["live"].minted) = 3 /\ Len(ctx["render"].minted) = 3
  /\ ctx["live"].minted[1].kind = "closure"
  /\ Cardinality(Registry(ctx["live"], "state")) = 2

\* C16: when the upgrade request carries the seed embedded in the page, the
\* ids the handler's second run mints are those of the render run, though
\* the render run went on to draw the element ids from the same generator;
\* every state id and closure id of the page is in the live registries.
C16_UpgradeReproducesIds ==
  (phase = "active" /\ query = page.seed) =>
    /\ ctx["live"].minted = ctx["render"].minted
    /\ page.states \subseteq Registry(ctx["live"], "state")
    /\ page.closures \subseteq Registry(ctx["live"], "closure")

\* The page holds a state id, a closure id and two element ids, drawn after
\* them, and the live session runs on the page's seed.
C16_Witness ==
  /\ phase = "active" /\ query = page.seed
  /\ page.states # {} /\ page.closures # {} /\ Len(page.elems) = 2
  /\ ctx["render"].pos > ctx["live"].pos

\* C17: an upgrade request without the seed parameter, or with one that is
\* no number, is fatal: the handler is not run again and the connection
\* never becomes active.
C17_BadSeedFatal ==
  (phase \notin {"new", "rendering", "rendered"} /\ query \in NoSeed) =>
    /\ phase = "panicked"
    /\ ctx["live"] = <<>>
    /\ ~ENABLED Declare("live") /\ ~ENABLED OnUpgrade

\* A page with ids in it was rendered and the upgrade request came without
\* the seed parameter.
C17_Witness ==
  /\ phase = "panicked" /\ query = "None"
  /\ page.states # {} /\ page.closures # {}

\* C18: when the inbound stream ends, or on a fatal error, the loop returns
\* (Closed) and sends no Update, whatever changes and closure calls are
\* still queued; once Closed it stays Closed, and nothing is received,
\* drained, run or sent any more.
C18_ClosedIsTerminal ==
  [][/\ (RecvEnd /\ Received(<<"None", "">>)) => loopPc' = "closed"
     /\ (loopPc # "closed" /\ loopPc' = "closed") => NothingRuns
     /\ loopPc = "closed" => Terminated]_vars

\* The stream ended while a change and a closure call were queued and the
\* client had not been told of the change; they are still queued.
C18_Witness ==
  /\ frame = <<"None", "">> /\ loopPc = "closed"
  /\ bus # <<>> /\ callq # <<>>
  /\ client[bus[1][1]] # bus[1][2]

\* C19: a text frame that is no Closure, Event or SetState message, and a
\* SetState that names an id no cell has, end the connection: on that step
\* no cell changes and no closure or handler starts, and nothing is
\* processed or sent afterwards.
C19_MalformedFatal ==
  [][/\ ((RecvMalformed /\ Received(<<"Text", "">>))
           \/ (\E payload \in Payloads : RecvSetState("unknown", payload)
                                          /\ Received(<<"SetState", "unknown">>)))
          => (loopPc' = "closed" /\ NothingRuns)
     /\ (loopPc = "closed" /\ frame \in {<<"Text", "">>, <<"SetState", "unknown">>})
          => Terminated]_vars

\* The loop returned on a SetState with an unknown id, after a cell had been
\* written; a change is left on the bus.
C19_Witness ==
  /\ frame = <<"SetState", "unknown">> /\ loopPc = "closed"
  /\ bus # <<>> /\ \E id \in StateIds : value[id] # InitialValue(id)

\* C20: a frame that is not text is skipped: no cell changes, no closure or
\* handler runs, nothing is sent or queued, and the loop is at select! again,
\* ready for the next frame.
C20_NonTextSkipped ==
  [][(RecvSkip /\ Received(<<"Binary", "">>)) =>
       /\ loopPc' = "select" /\ pend'["loop"] = <<>>
       /\ UNCHANGED <<value, bus, callq, updates, calls, pool, tasks, client>>]_vars

\* The first frame of the session was skipped; the loop can take the next
\* one, a closure's or another one to skip.
C20_Witness ==
  /\ frame = <<"Binary", "">> /\ loopPc = "select" /\ nInputs = 1
  /\ ENABLED RecvClosure("click") /\ ENABLED RecvSkip

\* C21: when closures invoked through the connection make the writes
\* w1..wn and nothing else writes a state cell, the Update messages carry
\* the pairs (id, string) of w1..wn in write order, none lost and none
\* twice (beside them only the fields of computed states): what was sent,
\* followed by the drained batch, the bus and the write about to be sent,
\* is w1..wn; every Update is a whole batch and never empty; and once
\* nothing is in flight all of w1..wn has been sent.
C21_UpdatesCarryWrites ==
  /\ StateFields(Flatten(sent) \o UpdateFields(updates) \o bus \o PoolPending) = wrote
  /\ \A i \in 1..Len(sent) : sent[i] # <<>>
  /\ (Quiescent /\ Alive) => StateFields(Flatten(sent)) = wrote

\* The closure add set counter to 1, and the one Update sent for it has the
\* single field (counter, "1"); click, which it called, has written clicks
\* and that is sent too.
C21_Witness ==
  /\ Len(sent) >= 2 /\ sent[1] = <<<<"counter", "1">>>>
  /\ wrote = <<<<"counter", "1">>, <<"clicks", "1">>>>
  /\ StateFields(Flatten(sent)) = wrote

\* C22: Closure::call() only queues a request: the body does not run in the
\* caller, and each request is in the queue or in the loop's drained batch
\* until the loop starts one execution of that closure for it; with the
\* queue empty and the loop idle every request has had exactly one. (The
\* render path has no loop: nothing there takes a request off the queue.)
C22_CallQueuesOneRun ==
  Alive =>
    \A cl \in ClosureIds :
      /\ requested[cl] = started[cl] + Count(callq, cl) + Count(calls, cl)
      /\ (loopPc = "select" /\ callq = <<>>) => started[cl] = requested[cl]

\* add has called click, whose request was queued while add was still
\* running and has been run once since.
C22_Witness ==
  /\ requested["click"] = 1 /\ started["click"] = 1 /\ started["add"] = 0
  /\ callq = <<>> /\ calls = <<>>
  /\ \E i \in 1..Len(wrote) : wrote[i][1] = "clicks"

\* C23: use_computed_async_with with ValueAndCompute(v) returns a cell holding
\* v and spawns one recomputation at once exactly when the Context belongs to
\* a live connection; in the render run, and with Value(v) in either run,
\* nothing is spawned and the value stays v until a dependency changes (one
\* set since, or set before with its change not yet taken by the loop).
C23_ImmediateOnlyWhenLive ==
  (policy # <<>> /\ ~depChanged) =>
    /\ spawns = (IF policy[1] = "ValueAndCompute" /\ websocket THEN 1 ELSE 0)
    /\ (policy[1] = "Value" \/ ~websocket) =>
         (cell["delayed_update"] = policy[2] /\ recomputations = <<>>)
    /\ recomputations # <<>> => cell["delayed_update"] = policy[2]

\* On a live connection delayed_update was derived with ValueAndCompute(1)
\* while counter was 0; the recomputation spawned at once has run and set it
\* to 0, no dependency having changed.
C23_Witness ==
  /\ websocket /\ policy = <<"ValueAndCompute", 1>> /\ ~depChanged
  /\ spawns = 1 /\ recomputations = <<>> /\ cell["delayed_update"] = 0

\* C24: right after use_computed the computed state holds compute applied to
\* its dependencies' current values; its listener is under every dependency
\* id; and once recompute_dependents has run for every dependency that
\* changed, the computed state holds compute of the current values again.
C24_DerivedAndRegistered ==
  /\ [](\A c \in SyncIds \cap declared :
          /\ \A k \in 1..Len(id_list(c)) : c \in Range(listeners[id_list(c)[k]])
          /\ (Range(id_list(c)) \cap Range(changed) = {}) =>
               cell[c] = compute(c, get_in(cell, c)))
  /\ [][\A c \in SyncIds :
          (c \notin declared /\ c \in declared') =>
            cell'[c] = compute(c, get_in(cell', c))]_dvars

\* total was derived over (counter, clicks); clicks alone was set to 1 after,
\* recompute_dependents ran for it, and total is 1.
C24_Witness ==
  /\ websocket /\ "total" \in declared /\ nSets = 1
  /\ cell["counter"] = 0 /\ cell["clicks"] = 1 /\ cell["total"] = 1
  /\ "clicks" \notin Range(changed)

\* C25: a closure whose parameter cannot be resolved from the request is a
\* recoverable error of that call: the body does not run, no cell changes,
\* and the connection stays active for the messages that follow.
C25_RejectionRecoverable ==
  [][\A cl \in ClosureIds :
       (RecvClosureRejected(cl) /\ frame' = <<"Rejected", cl>>) =>
         (value' = value /\ pool' = pool /\ Alive')]_<<vars, frame>>

\* C26: after optimize() no two adjacent items of a content list are both
\* literals (Text or Raw): a run of literals of any length is one segment.
C26_LiteralsMerged ==
  Optimized =>
    \A l \in ListsIn(element) :
      \A i \in 1..(Len(l) - 1) : ~(is_literal(l[i]) /\ is_literal(l[i + 1]))

\* C27: after optimize() no content list has a list among its items,
\* wherever the list stood in its parent, the last place included, and the
\* items are in the order they were: the element renders as before.
C27_ListsFlattened ==
  Optimized =>
    /\ \A l \in ListsIn(element) : \A i \in 1..Len(l) : l[i].t # "List"
    /\ stage = "optimized" => render(element) = render(ElementContent("div", content))

\* C28: after optimize() no content list has an Empty item and every list
\* left has two items or more: a list with nothing in it has become Empty,
\* and a list with one item left has been replaced by it.
C28_NoEmptyNoSingleton ==
  Optimized =>
    /\ \A l \in ListsIn(element) :
         Len(l) >= 2 /\ \A i \in 1..Len(l) : l[i].t # "Empty"
    /\ Nothing(content) => element.items[1] = Empty

\* The list (Empty, s1, Empty) has been replaced by its one item, the state.
C28_Witness ==
  /\ stage = "optimized"
  /\ content = List(<<Empty, StateContent("s1"), Empty>>)
  /\ element.items[1] = StateContent("s1")

\* C29: content with nothing in it compiles to no descriptor and an empty
\* script, and a list of one item compiles to the descriptors and the script
\* of that item alone.
C29_EmptyAndSingleton ==
  stage = "compiled" =>
    /\ Nothing(content) =>
         (descriptors = <<>> /\ script = [handlers |-> <<>>, state |-> {}])
    /\ (content.t = "List" /\ Len(content.items) = 1) =>
         <<descriptors, script>> = Compiled(content.items[1])

\* The list of the one state s1 has compiled to one descriptor for the whole
\* element, as s1 alone does.
C29_Witness ==
  /\ stage = "compiled"
  /\ content = List(<<StateContent("s1")>>)
  /\ Len(descriptors) = 1 /\ descriptors[1].child_node_idx = <<>>
  /\ script.state = {<<"s1", "0">>}

\* C30: in every descriptor each slot of the template that stands for a
\* state refers to a position of the dependency list, and the dependency
\* list has each state id once, however often the run refers to the state.
C30_DependenciesDistinct ==
  stage = "compiled" =>
    \A n \in 1..Len(descriptors) :
      LET d == descriptors[n] IN
        /\ \A i \in 1..Len(d.content) :
             d.content[i].k = "Var" => d.content[i].idx < Len(d.state_descriptors)
        /\ \A i, j \in 1..Len(d.state_descriptors) :
             i # j => d.state_descriptors[i][1] # d.state_descriptors[j][1]

C33_SetStateWritesOneCell ==
  [][/\ \A id \in Cells, payload \in Payloads :
        (OfCellType(payload) /\ RecvSetState(id, payload)
           /\ Received(<<"SetState", id>>)) =>
          LET v == CHOOSE x \in 0..MaxVal : to_string(x) = payload[2] IN
            /\ value' = [value EXCEPT ![id] = v]
            /\ pend' = [pend EXCEPT !["loop"] = <<<<id, v, to_string(v)>>>>]
            /\ UNCHANGED <<bus, callq, calls, pool, tasks, ran, loopPc>>
     /\ pend["loop"] # <<>> =>
          /\ frame' = frame /\ loopPc' = loopPc
          /\ pend'["loop"] # pend["loop"] =>
               /\ pend'["loop"] = <<>>
               /\ bus' = Append(bus, <<pend["loop"][1][1], pend["loop"][1][3]>>)
               /\ UNCHANGED <<value, callq, calls, pool, tasks, ran>>]_vars

\* The first message was a SetState of counter to 1: the cell holds 1, the one
\* change is on the bus and nothing else has happened.
C33_Witness ==
  /\ frame = <<"SetState", "counter">> /\ nInputs = 1
  /\ value["counter"] = 1 /\ bus = <<<<"counter", "1">>>>
  /\ pend["loop"] = <<>> /\ pool = <<>> /\ calls = <<>>

\* C34: a SetState for a cell with a value that is not of the cell's type,
\* typed or as a string, writes no cell and puts no change on the bus or on
\* its way there, and starts nothing; after it the client is sent nothing
\* and its copy of the cells stays as it was.
C34_MistypedSetStateWritesNothing ==
  [][/\ \A id \in Cells, payload \in Payloads :
        (~OfCellType(payload) /\ RecvSetState(id, payload)
           /\ Received(<<"SetState", "mistyped">>)) =>
          UNCHANGED <<value, bus, pend, updates, client, callq, calls, pool, ran>>
     /\ frame = <<"SetState", "mistyped">> =>
          UNCHANGED <<bus, updates, client>>]_vars

\* The second message was a SetState of a cell to a value that is no number,
\* after a SetState that wrote counter: the loop has returned with the first
\* write's value in the cell.
C34_Witness ==
  /\ frame = <<"SetState", "mistyped">> /\ nInputs = 2
  /\ loopPc = "closed" /\ value["counter"] = 1

\* C35: once the inputs have ended (at most MaxInputs messages, closure runs
\* and background writes), the loop stops sending Updates, and from some
\* point on the bus is empty with the loop at select! and no set half done,
\* unless the loop has returned.
C35_ChangesSettle ==
  /\ <>[](loopPc = "closed" \/ Quiescent)
  /\ <>[][~SendUpdate]_vars

\* A write of counter has gone through: its computed states have been
\* recomputed, the client has them, and nothing is in flight.
C35_Witness ==
  /\ Quiescent /\ tasks = <<>> /\ nInputs = MaxInputs
  /\ value["counter"] = 1 /\ client["counter_plus_1"] = "2"

\* C36: every content descriptor the compiler emits has at least one state
\* in its dependency list: a run of literals alone gets no descriptor.
C36_DescriptorsHaveDependencies ==
  stage = "compiled" =>
    \A n \in 1..Len(descriptors) : descriptors[n].state_descriptors # <<>>

\* C37: once the page is compiled, every state that the content of an
\* element refers to is in the dependency list of a content descriptor of
\* that element, and every state an attribute of an element refers to is in
\* the dependency list of an attribute descriptor of that element.
C37_EveryStateCovered ==
  stage = "compiled" =>
    \A e \in ElementsIn(element) :
      /\ \A s \in StatesIn(e.items[1]) :
           \E n \in 1..Len(descriptors) :
             /\ descriptors[n].element_id = e.id
             /\ s \in Range(descriptors[n].state_descriptors)
      /\ \A s \in Range(e.attributes) :
           \E n \in 1..Len(attribute_descriptors) :
             /\ attribute_descriptors[n].element_id = e.id
             /\ s \in Range(attribute_descriptors[n].state_descriptors)

\* C38: once the page is compiled, the element id of every content
\* descriptor and of every attribute descriptor is the coax-id of one
\* element, in whose rendered opening tag it stands, and it stands nowhere
\* else in the rendered page; a void element is no exception.
C38_DescriptorIdsRendered ==
  stage = "compiled" =>
    \A id \in {descriptors[n].element_id : n \in 1..Len(descriptors)}
               \cup {attribute_descriptors[n].element_id :
                       n \in 1..Len(attribute_descriptors)} :
      /\ \E e \in ElementsIn(element) : e.id = id /\ TagHasId(render(e), id)
      /\ TimesRendered(render(element), id) = 1

\* C39: optimize() does not change what is rendered: the optimized element
\* renders to the text the handler's element renders to, and so does the
\* optimized content on its own.
C39_OptimizeKeepsRendering ==
  stage = "optimized" =>
    /\ render(element) = render(ElementContent("div", content))
    /\ render(optimize(content)) = render(content)

\* The literals b and < have been merged into one raw text, with < escaped
\* as render escapes it.
C39_Witness ==
  /\ stage = "optimized"
  /\ content = List(<<Raw(<<"b">>), Text(<<"<">>)>>)
  /\ element.items[1] = Raw(<<"b", "&lt;">>)
  /\ render(element) = <<"<", "div", ">", "b", "&lt;", "</", "div", ">">>

\* C40: try_from_str, and visit_str with it, returns an error and does not
\* panic for a string of fewer than RANDOM_ID_LENGTH bytes; for a string of
\* exactly RANDOM_ID_LENGTH alphanumeric bytes it returns the id that is
\* displayed as that string.
C40_ShortIdIsAnError ==
  function \in {"try_from_str", "visit_str"} =>
    /\ Len(as_bytes(string)) < RANDOM_ID_LENGTH => returned[1] = "Err"
    /\ (Len(string) = RANDOM_ID_LENGTH /\ \A i \in 1..Len(string) : string[i] \in {"a", "7"}) =>
         (returned[1] = "Ok" /\ fmt(returned[2]) = string)

====
